---------------------------- MODULE Spec2Model ----------------------------
(***************************************************************************)
(* Dispatch of an inbound interaction through the application-command tree *)
(* of nextcord/application_command.py: routing (call / call_slash),        *)
(* argument binding (handle_value), the check tiers (can_run) and the      *)
(* hook pipeline (invoke_callback_with_hooks, invoke_error).               *)
(***************************************************************************)
EXTENDS Integers, Sequences, FiniteSets, TLC

(* ----------------------------- bounds ---------------------------------- *)
\* longest list of engine-wide checks (state._application_command_checks)
MaxGlobalChecks == 1
\* longest checks list of one node (CallbackMixin.checks)
MaxNodeChecks == 2
\* longest list of frames at one level of interaction.data["options"]
MaxFrames == 2

(* --------------------------- the command tree -------------------------- *)
\* cmd -> {group -> {sub}, solo}; flat is a root command without children.
Roots == {"cmd", "flat"}
Nodes == {"cmd", "group", "sub", "solo", "flat"}
None == <<"none">>

\* the children maps (name -> node) the tree was registered with
TreeChildren ==
  [n \in Nodes |->
     CASE n = "cmd"   -> [c \in {"group", "solo"} |-> c]
       [] n = "group" -> [c \in {"sub"} |-> c]
       [] OTHER       -> [c \in {} |-> c]]

\* SlashCommandOption as built by SlashCommandOption.__init__: the display
\* name (cmd_arg.name or parameter.name), the keyword of the callback, the
\* option type and the default (None when nothing was configured).
Opt(nm, fn, ty, df) == [name |-> nm, functional_name |-> fn, type |-> ty, default |-> df]

\* the ordered option maps the nodes were bound with (from_callback)
TreeOptions ==
  [n \in Nodes |->
     CASE n = "cmd"  -> <<Opt("a", "a", "integer", None)>>
       [] n = "sub"  -> <<Opt("a", "a", "integer", None),
                          Opt("b", "b", "string", <<"str", "d">>)>>
       [] n = "flat" -> <<Opt("see", "c", "integer", <<"int", 0>>)>>
       [] OTHER      -> <<>>]

Leaves == {n \in Nodes : DOMAIN TreeChildren[n] = {}}

(* ------------------------------ helpers -------------------------------- *)
Range(s) == {s[i] : i \in 1..Len(s)}

SeqsUpTo(S, k) == UNION {[1..m -> S] : m \in 0..k}


\* exceptions: the class, where it was raised, and the class of the wrapped
\* exception for ApplicationInvokeError
Err(ty, src) == [type |-> ty, src |-> src, inner |-> ""]
NoErr == Err("", "")

\* ApplicationInvokeError(error)
ApplicationInvokeError(e) == [type |-> "ApplicationInvokeError", src |-> e.src, inner |-> e.type]

(* ------------------------ inbound interactions ------------------------- *)
\* One frame of interaction.data["options"]: a value frame carries "value",
\* a path frame carries nested "options".
V(nm, v) == [name |-> nm, kind |-> "value", value |-> v]
P(nm, o) == [name |-> nm, kind |-> "path", options |-> o]

RawValues == {"", "7", "x"}
ArgFrames == {V("a", v) : v \in RawValues} \cup {V("b", "x"), V("z", "x")}
ArgLists == SeqsUpTo(ArgFrames, MaxFrames)
PathNames == {"group", "sub", "solo", "zz"}

\* the option lists an interaction may carry: value frames, or one path
\* frame holding value frames, or a path frame holding a path frame
OptionData ==
  ArgLists
  \cup {<<P(p, al)>> : p \in PathNames, al \in ArgLists}
  \cup {<<P(p, <<P(q, al)>>)>> : p \in {"group"}, q \in {"sub", "zz"}, al \in ArgLists}

Interactions == [cmd : Roots, options : OptionData]

\* int(value) of SlashCommandOption.handle_value; non-numeric text raises
IsNumeric(v) == v \in {"7"}
IntOf(v) == CASE v = "7" -> 7 [] OTHER -> 0

(* ------------------------------ state ---------------------------------- *)
VARIABLES
  children,              \* SlashCommandMixin.children of every node
  options,               \* SlashCommandMixin.options of every node
  checks,                \* CallbackMixin.checks of every node
  before_invoke,         \* nodes whose _callback_before_invoke is set
  after_invoke,          \* nodes whose _callback_after_invoke is set
  error_callback,        \* nodes whose error_callback is set
  parent_cog,            \* the commands live in a ClientCog
  cog_overrides,         \* special methods the cog overrides
  global_checks,         \* state._application_command_checks
  state_before_invoke,   \* state._application_command_before_invoke is set
  state_after_invoke,    \* state._application_command_after_invoke is set
  interaction,           \* the inbound interaction being dispatched
  application_command,   \* interaction.application_command
  pc,                    \* position of the dispatch coroutine
  node,                  \* the node whose method is executing (self)
  option_data,           \* the option_data argument of call / call_slash
  idx,                   \* position of the running for loop
  uncalled_args,         \* names left in uncalled_args of call_slash
  kwargs,                \* the kwargs built by call_slash
  error,                 \* the exception bound by the running except clause
  pending,               \* exception in flight while the finally block runs
  raised,                \* exception that left the dispatch coroutine
  invoked,               \* callbacks invoked: <<node, kwargs>>
  log,                   \* what ran, in order
  autocomplete,          \* per option: autocomplete_callback set, autocomplete_options
  focused_option,        \* name of focused_option in call_autocomplete
  focused_option_value,  \* focused_option_value of call_autocomplete
  uncalled_options,      \* uncalled_options of call_autocomplete
  ac_value,              \* value: what the autocomplete callback returned
  ac_invoked,            \* autocomplete callbacks invoked, with their arguments
  responded,             \* interaction.response._responded
  sent,                  \* responses transmitted for the interaction, in order
  raw_payload,           \* raw_payload argument of is_payload_valid
  scope,                 \* guild_id argument of get_payload / is_payload_valid
  valid,                 \* what is_payload_valid returned
  edits,                 \* how many times the remote payload was changed
  callback,              \* self.callback of every node
  modify_callbacks,      \* self.modify_callbacks: the predicates of the check wrappers
  temp_autocomplete_callbacks,  \* self._temp_autocomplete_callbacks
  command_ids,           \* self.command_ids of every root: scope -> remote id
  force_global,          \* self.force_global of every root
  guild_ids_to_rollout,  \* self.guild_ids_to_rollout of every root
  last_payload,          \* the payload last synthesized
  ops,                   \* the last two operations called on the tree, in order
  parameters,            \* signature(callback).parameters after the interaction
  on_kwargs,             \* the keywords on_autocomplete was called with
  def_options,           \* self.options of the command being defined
  def_pc,                \* position of the definition of the command
  def_j,                 \* position of the loop over the parameters
  def_raised,            \* exception that left the definition
  cmds,                  \* the command objects constructed so far, in order
  grow_raised,           \* exception that left the last registration or bind
  child_route,           \* the last lookup of a path frame in a children dict
  now,                   \* the time
  bucket,                \* the cooldown bucket of the one bucket key
  cd_log,                \* the invocations that went through _prepare_cooldowns
  gate_cfg,              \* _buckets.valid, _max_concurrency, cooldown_after_parsing
  tasks,                 \* the concurrent invocations running prepare
  slots,                 \* the concurrency counter of the one bucket key
  inter_type,            \* parent.type of the response: the type of the inbound event
  resp_log,              \* the response operations called, in order, with their outcome
  data_resolved,         \* interaction.data["resolved"]
  guild_members,         \* ids of the members in the cache of interaction.guild
  users_log,             \* the user options resolved, in order, with their result
  deco,                  \* the object the decorators applied so far have produced
  run_log,               \* per invocation of the command: the predicates can_run evaluated
  any_log                \* the last check_any built, its checks and what evaluating it gave

treeVars == <<children, options>>
setupVars == <<checks, before_invoke, after_invoke, error_callback, parent_cog,
               cog_overrides, global_checks, state_before_invoke, state_after_invoke>>
runVars == <<interaction, application_command, pc, node, option_data, idx,
             uncalled_args, kwargs, error, pending, raised, invoked, log>>
acVars == <<autocomplete, focused_option, focused_option_value, uncalled_options,
            ac_value, ac_invoked, responded, sent>>
payVars == <<raw_payload, scope, valid, edits>>
regVars == <<callback, modify_callbacks, temp_autocomplete_callbacks, command_ids, force_global,
             guild_ids_to_rollout, last_payload, ops>>
defVars == <<parameters, on_kwargs, def_options, def_pc, def_j, def_raised>>
growVars == <<cmds, grow_raised, child_route>>
prepVars == <<now, bucket, cd_log, gate_cfg, tasks, slots>>
respVars == <<inter_type, resp_log>>
userVars == <<data_resolved, guild_members, users_log>>
checkVars == <<deco, run_log, any_log>>
lastVars == <<respVars, userVars, checkVars>>
laterVars == <<defVars, growVars, prepVars, lastVars>>
extVars == <<acVars, payVars, regVars, laterVars>>
vars == <<treeVars, setupVars, runVars, extVars>>

Entry(k, who, n, e) == [k |-> k, who |-> who, n |-> n, err |-> e]

EmptyKwargs == [x \in {} |-> None]

OptionNames(n) == {options[n][j].name : j \in 1..Len(options[n])}

\* self.options[name]
OptionNamed(n, nm) ==
  options[n][CHOOSE j \in 1..Len(options[n]) : options[n][j].name = nm]

\* AutocompleteOptionMixin.__init__: no callback, no extra parameters
NoWiring == [callback |-> FALSE, options |-> {}]

\* the call_autocomplete locals and the response before anything ran
AcStart ==
  /\ focused_option = ""
  /\ focused_option_value = None
  /\ uncalled_options = {}
  /\ ac_value = None
  /\ ac_invoked = <<>>
  /\ responded = FALSE
  /\ sent = <<>>

\* no payload has been compared
PayStart ==
  /\ raw_payload = [name |-> ""]
  /\ scope = 0
  /\ valid = "unset"
  /\ edits = 0

\* no command is being defined
DefStart ==
  /\ parameters = <<>>
  /\ on_kwargs = {}
  /\ def_options = <<>>
  /\ def_pc = "idle"
  /\ def_j = 0
  /\ def_raised = ""

\* no command object has been constructed
GrowStart ==
  /\ cmds = <<>>
  /\ grow_raised = ""
  /\ child_route = [self |-> 0, name |-> "", to |-> 0]

\* no invocation has been gated
PrepStart ==
  /\ now = 0
  /\ bucket = [window |-> 0, tokens |-> 1]
  /\ cd_log = <<>>
  /\ gate_cfg = [valid |-> FALSE, max_concurrency |-> FALSE, cooldown_after_parsing |-> FALSE]
  /\ tasks = <<>>
  /\ slots = 0

\* no response operation has been called
RespStart ==
  /\ inter_type = "application_command"
  /\ resp_log = <<>>

\* no user option has been resolved
UserStart ==
  /\ data_resolved = [x \in {} |-> 0]
  /\ guild_members = {}
  /\ users_log = <<>>

\* no decorator has been applied
CheckStart ==
  /\ deco = [class |-> "function", modify_callbacks |-> <<>>, checks |-> <<>>, binds |-> 0]
  /\ run_log = <<>>
  /\ any_log = <<>>

LastStart == RespStart /\ UserStart /\ CheckStart

LaterStart == DefStart /\ GrowStart /\ PrepStart /\ LastStart

\* a dict with no key
EmptyDict == [x \in {} |-> 0]

\* nodes as their constructors leave them: no wrapper, no autocomplete
\* callback, nothing registered with Discord, nothing synthesized
RegStart ==
  /\ callback = [n \in Nodes |-> "f0"]
  /\ modify_callbacks = [n \in Nodes |-> <<>>]
  /\ temp_autocomplete_callbacks = [n \in Nodes |-> EmptyDict]
  /\ command_ids = [n \in Roots |-> EmptyDict]
  /\ force_global = [n \in Roots |-> FALSE]
  /\ guild_ids_to_rollout = [n \in Roots |-> {}]
  /\ last_payload = [name |-> ""]
  /\ ops = <<>>

(* ------------------------------- Init ---------------------------------- *)
CogOverrides == {"check", "before", "after"}

\* A setup: which hooks, handlers and checks were registered before dispatch.
Setups ==
  [leafHooks : SUBSET {"before", "after", "error"},
   cog : BOOLEAN, cogOv : SUBSET CogOverrides,
   stateHooks : SUBSET {"before", "after"},
   nGlobal : 0..MaxGlobalChecks, nNode : 0..MaxNodeChecks]

\* node-level registrations sit either on the leaves or on the inner nodes
Holders(s, what) == IF what \in s.leafHooks THEN Leaves ELSE Nodes \ Leaves

FullSetup(s) ==
  /\ s.cog /\ s.cogOv = CogOverrides /\ s.stateHooks = {"before", "after"}
  /\ {"before", "after"} \subseteq s.leafHooks
  /\ s.nGlobal = 1 /\ s.nNode = 1

CoreInteractions ==
  { [cmd |-> "cmd", options |-> <<P("group", <<P("sub", <<V("a", "7")>>)>>)>>],
    [cmd |-> "cmd", options |-> <<P("solo", <<>>)>>],
    [cmd |-> "flat", options |-> <<>>] }

Init ==
  /\ children = TreeChildren
  /\ options = TreeOptions
  /\ \E s \in Setups, ia \in Interactions :
       /\ s.cog \/ s.cogOv = {}
       /\ FullSetup(s) \/ ia \in CoreInteractions
       /\ checks = [n \in Nodes |-> IF n \in Leaves THEN [j \in 1..s.nNode |-> j]
                                                   ELSE [j \in 1..(MaxNodeChecks - s.nNode) |-> j]]
       /\ before_invoke = Holders(s, "before")
       /\ after_invoke = Holders(s, "after")
       /\ error_callback = Holders(s, "error")
       /\ parent_cog = s.cog
       /\ cog_overrides = s.cogOv
       /\ global_checks = [j \in 1..s.nGlobal |-> j]
       /\ state_before_invoke = ("before" \in s.stateHooks)
       /\ state_after_invoke = ("after" \in s.stateHooks)
       /\ interaction = ia
       /\ node = ia.cmd
  /\ application_command = "none"
  /\ pc = "call"
  /\ option_data = <<>>
  /\ idx = 1
  /\ uncalled_args = {}
  /\ kwargs = EmptyKwargs
  /\ error = NoErr
  /\ pending = NoErr
  /\ raised = NoErr
  /\ invoked = <<>>
  /\ log = <<>>
  /\ autocomplete = [n \in Nodes |-> [o \in OptionNames(n) |-> NoWiring]]
  /\ AcStart
  /\ PayStart
  /\ RegStart
  /\ LaterStart

(* ------------------------------ routing -------------------------------- *)
\* an exception leaves the dispatch coroutine
Propagate(e) ==
  /\ raised' = e
  /\ pc' = "done"

\* Call that hands the whole option list to the child, not the nested one
Call_WholeList ==
  /\ pc = "call"
  /\ UNCHANGED <<treeVars, setupVars, extVars, interaction, application_command, idx,
                 uncalled_args, kwargs, error, pending, invoked, log>>
  /\ LET od == interaction.options IN
     IF DOMAIN children[node] # {}
     THEN IF Len(od) > 0 /\ od[1].name \in DOMAIN children[node]
          THEN /\ node' = children[node][od[1].name]
               /\ option_data' = od
               /\ pc' = "subcall"
               /\ UNCHANGED raised
          ELSE Propagate(Err("KeyError", "call")) /\ UNCHANGED <<node, option_data>>
     ELSE /\ option_data' = od
          /\ pc' = "call_slash"
          /\ UNCHANGED <<node, raised>>

\* SlashApplicationCommand.call
Call ==
  /\ pc = "call"
  /\ UNCHANGED <<treeVars, setupVars, extVars, interaction, application_command, idx,
                 uncalled_args, kwargs, error, pending, invoked, log>>
  /\ LET od == interaction.options IN
     IF DOMAIN children[node] # {}
     THEN IF Len(od) = 0
          THEN Propagate(Err("KeyError", "call")) /\ UNCHANGED <<node, option_data>>
          ELSE IF od[1].name \in DOMAIN children[node]
               THEN /\ node' = children[node][od[1].name]
                    /\ option_data' = IF od[1].kind = "path" THEN od[1].options ELSE <<>>
                    /\ pc' = "subcall"
                    /\ UNCHANGED raised
               ELSE Propagate(Err("KeyError", "call")) /\ UNCHANGED <<node, option_data>>
     ELSE /\ option_data' = od
          /\ pc' = "call_slash"
          /\ UNCHANGED <<node, raised>>

\* SlashApplicationSubcommand.call
SubCall ==
  /\ pc = "subcall"
  /\ UNCHANGED <<treeVars, setupVars, extVars, interaction, application_command, idx,
                 uncalled_args, kwargs, error, pending, invoked, log>>
  /\ IF DOMAIN children[node] # {}
     THEN IF Len(option_data) = 0
          THEN Propagate(Err("KeyError", "call")) /\ UNCHANGED <<node, option_data>>
          ELSE IF option_data[1].name \in DOMAIN children[node]
               THEN /\ node' = children[node][option_data[1].name]
                    /\ option_data' = IF option_data[1].kind = "path"
                                      THEN option_data[1].options ELSE <<>>
                    /\ pc' = "subcall"
                    /\ UNCHANGED raised
               ELSE Propagate(Err("KeyError", "call")) /\ UNCHANGED <<node, option_data>>
     ELSE /\ pc' = "call_slash"
          /\ UNCHANGED <<node, option_data, raised>>

(* -------------------------- argument binding --------------------------- *)
\* SlashCommandOption.handle_value: the type-directed coercion of one raw
\* value; "ok" tells whether it returned, "v" what it returned
handle_value(opt, value) ==
  CASE opt.type = "integer" ->
         IF value = "" THEN [ok |-> TRUE, v |-> None]
         ELSE IF IsNumeric(value) THEN [ok |-> TRUE, v |-> <<"int", IntOf(value)>>]
         ELSE [ok |-> FALSE, v |-> None]
    [] OTHER -> [ok |-> TRUE, v |-> <<"str", value>>]

\* kwargs[key] = value
SetItem(kw, key, value) == [k \in DOMAIN kw \cup {key} |-> IF k = key THEN value ELSE kw[k]]

\* FillDefaults that hands None to every option the interaction left out
RECURSIVE FillDefaults_None(_, _, _, _)
FillDefaults_None(kw, opts, uncalled, j) ==
  IF j > Len(opts) THEN kw
  ELSE FillDefaults_None(IF opts[j].name \in uncalled
                         THEN SetItem(kw, opts[j].functional_name, None)
                         ELSE kw,
                         opts, uncalled, j + 1)

\* for uncalled_arg in uncalled_args.values(): kwargs[functional_name] = default
RECURSIVE FillDefaults(_, _, _, _)
FillDefaults(kw, opts, uncalled, j) ==
  IF j > Len(opts) THEN kw
  ELSE FillDefaults(IF opts[j].name \in uncalled
                    THEN SetItem(kw, opts[j].functional_name, opts[j].default)
                    ELSE kw,
                    opts, uncalled, j + 1)

\* SlashCommandMixin.call_slash, entry: descend when the node has children,
\* else kwargs = {}, uncalled_args = options.copy()
CallSlash ==
  /\ pc = "call_slash"
  /\ UNCHANGED <<treeVars, setupVars, extVars, interaction, application_command,
                 error, pending, invoked, log>>
  /\ IF DOMAIN children[node] # {}
     THEN /\ UNCHANGED <<kwargs, uncalled_args, idx>>
          /\ IF Len(option_data) > 0 /\ option_data[1].name \in DOMAIN children[node]
             THEN /\ node' = children[node][option_data[1].name]
                  /\ option_data' = IF option_data[1].kind = "path"
                                    THEN option_data[1].options ELSE <<>>
                  /\ UNCHANGED <<pc, raised>>
             ELSE Propagate(Err("KeyError", "call")) /\ UNCHANGED <<node, option_data>>
     ELSE /\ kwargs' = EmptyKwargs
          /\ uncalled_args' = OptionNames(node)
          /\ idx' = 1
          /\ pc' = "bind"
          /\ UNCHANGED <<node, option_data, raised>>

\* BindFrame that skips a frame naming no option instead of raising
BindFrame_SkipUnknown ==
  /\ pc = "bind"
  /\ idx <= Len(option_data)
  /\ UNCHANGED <<treeVars, setupVars, extVars, interaction, application_command, node,
                 option_data, error, pending, invoked, raised, pc>>
  /\ LET arg_data == option_data[idx] IN
     IF arg_data.name \in uncalled_args /\ arg_data.kind = "value"
        /\ handle_value(OptionNamed(node, arg_data.name), arg_data.value).ok
     THEN LET opt == OptionNamed(node, arg_data.name) IN
          /\ uncalled_args' = uncalled_args \ {arg_data.name}
          /\ log' = Append(log, Entry("resolve", arg_data.name, idx, NoErr))
          /\ kwargs' = SetItem(kwargs, opt.functional_name,
                               handle_value(opt, arg_data.value).v)
          /\ idx' = idx + 1
     ELSE /\ idx' = idx + 1
          /\ UNCHANGED <<uncalled_args, kwargs, log>>

\* BindFrame that hands None to the callback for a value that cannot be
\* resolved instead of raising
BindFrame_Lenient ==
  /\ pc = "bind"
  /\ idx <= Len(option_data)
  /\ UNCHANGED <<treeVars, setupVars, extVars, interaction, application_command, node,
                 option_data, error, pending, invoked>>
  /\ LET arg_data == option_data[idx] IN
     IF arg_data.name \in uncalled_args
     THEN IF arg_data.kind # "value"
          THEN /\ Propagate(Err("KeyError", "call_slash"))
               /\ uncalled_args' = uncalled_args \ {arg_data.name}
               /\ UNCHANGED <<kwargs, idx, log>>
          ELSE LET opt == OptionNamed(node, arg_data.name)
                   res == handle_value(opt, arg_data.value) IN
               /\ uncalled_args' = uncalled_args \ {arg_data.name}
               /\ log' = Append(log, Entry("resolve", arg_data.name, idx, NoErr))
               /\ kwargs' = SetItem(kwargs, opt.functional_name, res.v)
               /\ idx' = idx + 1
               /\ UNCHANGED <<pc, raised>>
     ELSE /\ Propagate(Err("NotImplementedError", "call_slash"))
          /\ UNCHANGED <<uncalled_args, kwargs, idx, log>>

\* SlashCommandMixin.call_slash, one round of "for arg_data in option_data"
BindFrame ==
  /\ pc = "bind"
  /\ idx <= Len(option_data)
  /\ UNCHANGED <<treeVars, setupVars, extVars, interaction, application_command, node,
                 option_data, error, pending, invoked>>
  /\ LET arg_data == option_data[idx] IN
     IF arg_data.name \in uncalled_args
     THEN IF arg_data.kind # "value"
          THEN /\ Propagate(Err("KeyError", "call_slash"))
               /\ uncalled_args' = uncalled_args \ {arg_data.name}
               /\ UNCHANGED <<kwargs, idx, log>>
          ELSE LET opt == OptionNamed(node, arg_data.name)
                   res == handle_value(opt, arg_data.value) IN
               /\ uncalled_args' = uncalled_args \ {arg_data.name}
               /\ log' = Append(log, Entry("resolve", arg_data.name, idx, NoErr))
               /\ IF res.ok
                  THEN /\ kwargs' = SetItem(kwargs, opt.functional_name, res.v)
                       /\ idx' = idx + 1
                       /\ UNCHANGED <<pc, raised>>
                  ELSE /\ Propagate(Err("ValueError", "handle_value"))
                       /\ UNCHANGED <<kwargs, idx>>
     ELSE /\ Propagate(Err("NotImplementedError", "call_slash"))
          /\ UNCHANGED <<uncalled_args, kwargs, idx, log>>

\* SlashCommandMixin.call_slash, after the loop: defaults for the options
\* the interaction did not carry, then invoke_callback_with_hooks, which
\* starts with interaction._set_application_command(self)
BindDefaults ==
  /\ pc = "bind"
  /\ idx > Len(option_data)
  /\ kwargs' = FillDefaults(kwargs, options[node], uncalled_args, 1)
  /\ application_command' = node
  /\ idx' = 1
  /\ pc' = "can_run_global"
  /\ UNCHANGED <<treeVars, setupVars, extVars, interaction, node, option_data,
                 uncalled_args, error, pending, raised, invoked, log>>

(* ------------------------------ can_run -------------------------------- *)
\* what awaiting a predicate may do: return a true or a false value, raise an
\* ApplicationCheckFailure (subclass), raise anything else
Outcomes == {"true", "false", "check_failure", "exception"}

\* what awaiting a hook, a callback or an error handler may do
Returns == {"return", "raise"}

\* the exception can_run raises for a predicate that did `out`
CheckError(tier, out) ==
  CASE out = "false"         -> Err("ApplicationCheckFailure", tier)
    [] out = "check_failure" -> Err("ApplicationCheckFailure", "predicate")
    [] OTHER                 -> Err("Exception", "predicate")

\* variables no step of invoke_callback_with_hooks touches
PipeFrame ==
  UNCHANGED <<treeVars, setupVars, extVars, interaction, application_command, node,
              option_data, uncalled_args, kwargs>>

\* self.cog_before_invoke / cog_after_invoke / the cog check of can_run:
\* the cog's special method when there is a cog and it overrides it
CogMethod(what) == parent_cog /\ what \in cog_overrides

\* CheckStep without the raise: the loop goes on after a failing predicate
CheckStep_NoStop(tier, n, out, next) ==
  /\ log' = Append(log, Entry("check", tier, n,
                              IF out = "true" THEN NoErr ELSE CheckError(tier, out)))
  /\ pc' = next
  /\ error' = IF out = "true" THEN error ELSE CheckError(tier, out)

\* one predicate of a check loop was awaited with outcome out
CheckStep(tier, n, out, next) ==
  /\ log' = Append(log, Entry("check", tier, n,
                              IF out = "true" THEN NoErr ELSE CheckError(tier, out)))
  /\ IF out = "true"
     THEN /\ pc' = next
          /\ UNCHANGED error
     ELSE /\ error' = CheckError(tier, out)
          /\ pc' = "check_error"

\* can_run, "for check in ..._application_command_checks"
CanRunGlobal ==
  /\ pc = "can_run_global"
  /\ PipeFrame
  /\ UNCHANGED <<pending, raised, invoked>>
  /\ IF idx <= Len(global_checks)
     THEN /\ \E out \in Outcomes : CheckStep("global", idx, out, "can_run_global")
          /\ idx' = idx + 1
     ELSE /\ pc' = "can_run_cog"
          /\ idx' = 1
          /\ UNCHANGED <<error, log>>

\* can_run, "if self.parent_cog: cog_check = ..."
CanRunCog ==
  /\ pc = "can_run_cog"
  /\ PipeFrame
  /\ UNCHANGED <<idx, pending, raised, invoked>>
  /\ IF CogMethod("check")
     THEN \E out \in Outcomes : CheckStep("cog", 1, out, "can_run_node")
     ELSE /\ pc' = "can_run_node"
          /\ UNCHANGED <<error, log>>

\* can_run, "for check in self.checks" and "return True"
CanRunNode ==
  /\ pc = "can_run_node"
  /\ PipeFrame
  /\ UNCHANGED <<pending, raised, invoked>>
  /\ IF idx <= Len(checks[node])
     THEN /\ \E out \in Outcomes : CheckStep("node", idx, out, "can_run_node")
          /\ idx' = idx + 1
     ELSE /\ pc' = "before_node"
          /\ idx' = 1
          /\ UNCHANGED <<error, log>>

(* ---------------------- invoke_callback_with_hooks --------------------- *)
\* CallbackMixin.invoke_error: the node's error handler, when it has one,
\* is awaited with e; lg is the log so far
InvokeError(lg, e) ==
  IF node \in error_callback THEN Append(lg, Entry("handler", node, 0, e)) ELSE lg

\* CheckFailed without the return: falls through to the hooks
CheckFailed_NoReturn ==
  /\ pc = "check_error"
  /\ PipeFrame
  /\ UNCHANGED <<idx, error, pending, invoked, raised>>
  /\ log' = InvokeError(Append(log, Entry("dispatch", "application_command_error", 0, error)),
                        error)
  /\ pc' = "before_node"

\* CheckFailed that dispatches the event only when the node has no handler
CheckFailed_Exclusive ==
  /\ pc = "check_error"
  /\ PipeFrame
  /\ UNCHANGED <<idx, error, pending, invoked>>
  /\ log' = IF node \in error_callback
            THEN Append(log, Entry("handler", node, 0, error))
            ELSE Append(log, Entry("dispatch", "application_command_error", 0, error))
  /\ pc' = "done"
  /\ IF node \in error_callback
     THEN \E r \in Returns :
            raised' = IF r = "raise" THEN Err("Exception", "handler") ELSE raised
     ELSE UNCHANGED raised

\* "except Exception as error" around can_run: dispatch, invoke_error, return
CheckFailed ==
  /\ pc = "check_error"
  /\ PipeFrame
  /\ UNCHANGED <<idx, error, pending, invoked>>
  /\ log' = InvokeError(Append(log, Entry("dispatch", "application_command_error", 0, error)),
                        error)
  /\ pc' = "done"
  /\ IF node \in error_callback
     THEN \E r \in Returns :
            raised' = IF r = "raise" THEN Err("Exception", "handler") ELSE raised
     ELSE UNCHANGED raised

\* one before-invoke hook: awaited when set; when it raises, the exception
\* leaves invoke_callback_with_hooks
BeforeHook(level, isSet, next) ==
  /\ PipeFrame
  /\ UNCHANGED <<idx, error, pending, invoked>>
  /\ IF isSet
     THEN \E r \in Returns :
            IF r = "return"
            THEN /\ log' = Append(log, Entry("before", level, 0, NoErr))
                 /\ pc' = next
                 /\ UNCHANGED raised
            ELSE /\ log' = Append(log, Entry("before", level, 0, Err("Exception", "hook")))
                 /\ Propagate(Err("Exception", "hook"))
     ELSE /\ pc' = next
          /\ UNCHANGED <<raised, log>>

BeforeNode ==
  /\ pc = "before_node"
  /\ BeforeHook("node", node \in before_invoke, "before_cog")

\* BeforeCog that forgets the cog's hook
BeforeCog_Skipped ==
  /\ pc = "before_cog"
  /\ BeforeHook("cog", FALSE, "before_state")

BeforeCog ==
  /\ pc = "before_cog"
  /\ BeforeHook("cog", CogMethod("before"), "before_state")

BeforeState ==
  /\ pc = "before_state"
  /\ BeforeHook("state", state_before_invoke, "callback")

\* "await self.invoke_callback(interaction, *args, **kwargs)" in the try
InvokeCallback ==
  /\ pc = "callback"
  /\ PipeFrame
  /\ UNCHANGED <<idx, pending, raised>>
  /\ invoked' = Append(invoked, <<node, kwargs>>)
  /\ \E r \in Returns :
       IF r = "return"
       THEN /\ log' = Append(log, Entry("callback", node, 0, NoErr))
            /\ pc' = "after_node"
            /\ UNCHANGED error
       ELSE /\ log' = Append(log, Entry("callback", node, 0, Err("Exception", "callback")))
            /\ error' = Err("Exception", "callback")
            /\ pc' = "callback_error"

\* "except Exception as error" around invoke_callback: the wrapped error is
\* dispatched, invoke_error gets `error`; a raising handler leaves its
\* exception in flight while the finally block runs
CallbackFailed ==
  /\ pc = "callback_error"
  /\ PipeFrame
  /\ UNCHANGED <<idx, error, raised, invoked>>
  /\ log' = InvokeError(Append(log, Entry("dispatch", "application_command_error", 0,
                                          ApplicationInvokeError(error))),
                        error)
  /\ pc' = "after_node"
  /\ IF node \in error_callback
     THEN \E r \in Returns :
            pending' = IF r = "raise" THEN Err("Exception", "handler") ELSE pending
     ELSE UNCHANGED pending

\* one after-invoke hook of the finally block; after the last one the
\* exception in flight, if any, leaves invoke_callback_with_hooks
AfterHook(level, isSet, next) ==
  /\ PipeFrame
  /\ UNCHANGED <<idx, error, pending, invoked>>
  /\ IF isSet
     THEN \E r \in Returns :
            IF r = "return"
            THEN /\ log' = Append(log, Entry("after", level, 0, NoErr))
                 /\ pc' = next
                 /\ raised' = IF next = "done" THEN pending ELSE raised
            ELSE /\ log' = Append(log, Entry("after", level, 0, Err("Exception", "hook")))
                 /\ Propagate(Err("Exception", "hook"))
     ELSE /\ pc' = next
          /\ raised' = IF next = "done" THEN pending ELSE raised
          /\ UNCHANGED log

AfterNode ==
  /\ pc = "after_node"
  /\ AfterHook("node", node \in after_invoke, "after_cog")

AfterCog ==
  /\ pc = "after_cog"
  /\ AfterHook("cog", CogMethod("after"), "after_state")

AfterState ==
  /\ pc = "after_state"
  /\ AfterHook("state", state_after_invoke, "done")

(* ------------------------------- Spec ---------------------------------- *)
Next ==
  \/ Call
  \/ SubCall
  \/ CallSlash
  \/ BindFrame
  \/ BindDefaults
  \/ CanRunGlobal
  \/ CanRunCog
  \/ CanRunNode
  \/ CheckFailed
  \/ BeforeNode
  \/ BeforeCog
  \/ BeforeState
  \/ InvokeCallback
  \/ CallbackFailed
  \/ AfterNode
  \/ AfterCog
  \/ AfterState

Spec == Init /\ [][Next]_vars

(* ====================== properties of the dispatch ===================== *)
Sel(k) == SelectSeq(log, LAMBDA e : e.k = k)
Positions(k) == {j \in 1..Len(log) : log[j].k = k}
Failed(k) == {j \in Positions(k) : log[j].err # NoErr}
IsPrefix(s, t) == Len(s) <= Len(t) /\ \A j \in 1..Len(s) : s[j] = t[j]
Tags(es) == [j \in 1..Len(es) |-> <<es[j].who, es[j].n>>]

\* the predicates of an invocation of node n, in the order of the tiers
ExpectedChecks(n) ==
  [j \in 1..Len(global_checks) |-> <<"global", j>>]
  \o (IF parent_cog /\ "check" \in cog_overrides THEN << <<"cog", 1>> >> ELSE <<>>)
  \o [j \in 1..Len(checks[n]) |-> <<"node", j>>]

\* the hooks of one kind that are set for node n, node then cog then engine
ExpectedHooks(n, nodeSet, what, engine) ==
  (IF n \in nodeSet THEN << <<"node", 0>> >> ELSE <<>>)
  \o (IF parent_cog /\ what \in cog_overrides THEN << <<"cog", 0>> >> ELSE <<>>)
  \o (IF engine THEN << <<"state", 0>> >> ELSE <<>>)

InCanRun == pc \in {"can_run_global", "can_run_cog", "can_run_node"}

\* can_run returned True for the invocation
CanRunSucceeded ==
  /\ application_command # "none"
  /\ ~InCanRun /\ pc # "check_error"
  /\ Failed("check") = {}

\* C1: the predicates are evaluated in the order engine-wide checks, cog
\* check, the node's checks in list order; every predicate evaluated before
\* the last one passed, so nothing is evaluated after a failing predicate;
\* when can_run returned True every predicate was evaluated.
C1_CheckOrder ==
  IF application_command = "none" THEN Sel("check") = <<>>
  ELSE LET cs == Sel("check")
           ex == ExpectedChecks(application_command) IN
       /\ IsPrefix(Tags(cs), ex)
       /\ \A j \in 1..Len(cs) : j < Len(cs) => cs[j].err = NoErr
       /\ CanRunSucceeded => Len(cs) = Len(ex)

\* a failing cog check with an engine check before it and node checks after
C1_Witness ==
  /\ pc = "done"
  /\ \E j \in Failed("check") : log[j].who = "cog"
  /\ Len(global_checks) > 0
  /\ Len(checks[application_command]) > 0

\* C2: once a check of the invocation failed, no before-invoke hook, no
\* callback and no after-invoke hook has run.
C2_NoHooksAfterFailedCheck ==
  Failed("check") # {} =>
    /\ Positions("before") = {} /\ Positions("callback") = {} /\ Positions("after") = {}
    /\ invoked = <<>>

\* a finished invocation whose check failed although every hook was set
C2_Witness ==
  /\ pc = "done"
  /\ Failed("check") # {}
  /\ application_command \in before_invoke \cap after_invoke
  /\ state_before_invoke /\ state_after_invoke
  /\ CogOverrides \subseteq cog_overrides

\* C3: the before-invoke hooks that are set run in the order node, cog,
\* engine, each at most once and only after can_run returned True; when the
\* callback has started, every one of them has run to completion before it.
C3_BeforeHooks ==
  IF application_command = "none" THEN Sel("before") = <<>>
  ELSE LET bs == Sel("before")
           ex == ExpectedHooks(application_command, before_invoke, "before",
                               state_before_invoke) IN
       /\ IsPrefix(Tags(bs), ex)
       /\ bs # <<>> => CanRunSucceeded
       /\ Positions("callback") # {} =>
            /\ Len(bs) = Len(ex)
            /\ \A j \in Positions("before") :
                 /\ log[j].err = NoErr
                 /\ \A c \in Positions("callback") : j < c

\* the callback ran after the three before-invoke hooks
C3_Witness ==
  /\ Positions("callback") # {}
  /\ Len(Sel("before")) = 3

\* C4 as claimed: whenever can_run returned True, the after-invoke hooks
\* that are set have each run exactly once when the invocation is over, in
\* the order node, cog, engine and after the callback; they never run when a
\* check failed.
C4_AfterHooksAlways ==
  /\ Failed("check") # {} => Positions("after") = {}
  /\ (pc = "done" /\ CanRunSucceeded) =>
       /\ Tags(Sel("after")) = ExpectedHooks(application_command, after_invoke, "after",
                                             state_after_invoke)
       /\ \A j \in Positions("after") : \A c \in Positions("callback") : j > c

\* something failed during the dispatch
FailureOccurred ==
  \/ raised # NoErr
  \/ \E k \in {"check", "before", "callback", "after"} : Failed(k) # {}

\* C5 as claimed: a dispatch in which anything failed has dispatched exactly
\* one application_command_error event, and no dispatch dispatches two.
C5_ExactlyOneErrorEvent ==
  /\ Len(Sel("dispatch")) <= 1
  /\ (pc = "done" /\ FailureOccurred) => Len(Sel("dispatch")) = 1

\* the error can_run raised: the one of the failing predicate
CheckFailure == log[CHOOSE j \in Failed("check") : TRUE].err

\* C6 as claimed: a failed check goes to the node's error handler when the
\* node has one and to the application_command_error event only otherwise.
C6_HandlerElseEvent ==
  (pc = "done" /\ Failed("check") # {}) =>
     IF application_command \in error_callback
     THEN /\ Sel("handler") = <<Entry("handler", application_command, 0, CheckFailure)>>
          /\ Sel("dispatch") = <<>>
     ELSE /\ Sel("handler") = <<>>
          /\ Sel("dispatch") = <<Entry("dispatch", "application_command_error", 0, CheckFailure)>>

\* C6 amended: a failed check is always dispatched, once, to the
\* application_command_error event, and is then also handed to the node's
\* error handler exactly when the node has one.
C6_EventAndHandler ==
  (pc = "done" /\ Failed("check") # {}) =>
     /\ Sel("dispatch") = <<Entry("dispatch", "application_command_error", 0, CheckFailure)>>
     /\ Sel("handler") = IF application_command \in error_callback
                         THEN <<Entry("handler", application_command, 0, CheckFailure)>>
                         ELSE <<>>
     /\ \A d \in Positions("dispatch") : \A h \in Positions("handler") : d < h

\* a failed check on a node that has an error handler
C6_Witness ==
  /\ pc = "done"
  /\ Failed("check") # {}
  /\ application_command \in error_callback
  /\ Len(Sel("handler")) = 1

\* C7 as claimed: when the callback raised, what the node's error handler
\* receives is the exception wrapped in ApplicationInvokeError.
C7_HandlerGetsWrapped ==
  Failed("callback") # {} =>
    \A j \in Positions("handler") : log[j].err.type = "ApplicationInvokeError"

\* the option path of the interaction is [group, sub] on the root cmd
IsGroupSub ==
  /\ interaction.cmd = "cmd"
  /\ Len(interaction.options) = 1
  /\ interaction.options[1].kind = "path" /\ interaction.options[1].name = "group"
  /\ Len(interaction.options[1].options) = 1
  /\ interaction.options[1].options[1].kind = "path"
  /\ interaction.options[1].options[1].name = "sub"

\* C8: no node with children ever has its callback invoked; for the option
\* path [group, sub] the router ends at the leaf sub without failing, only
\* sub's callback is invoked, at most once, and exactly once when nothing
\* failed on the way.
C8_LeafOnly ==
  /\ \A j \in 1..Len(invoked) : DOMAIN children[invoked[j][1]] = {}
  /\ \A j \in Positions("callback") : DOMAIN children[log[j].who] = {}
  /\ IsGroupSub =>
       /\ raised.src # "call"
       /\ pc \notin {"call", "subcall"} => node = "sub"
       /\ \A j \in 1..Len(invoked) : invoked[j][1] = "sub"
       /\ Len(invoked) <= 1
       /\ (pc = "done" /\ ~FailureOccurred) =>
            Len(invoked) = 1 /\ Len(Sel("callback")) = 1

\* sub's callback was invoked for the path [group, sub]
C8_Witness ==
  /\ IsGroupSub
  /\ pc = "done"
  /\ Len(invoked) = 1 /\ invoked[1][1] = "sub"

\* frame i of the leaf n binds: a value frame of an option not yet bound
\* whose value the option's type accepts
FrameBinds(n, od, i) ==
  /\ od[i].kind = "value"
  /\ od[i].name \in OptionNames(n)
  /\ \A h \in 1..(i - 1) : od[h].name # od[i].name
  /\ handle_value(OptionNamed(n, od[i].name), od[i].value).ok

\* the router meets a frame it cannot match: a path frame naming no child of
\* the node reached so far, or a frame naming no option of the reached leaf
RECURSIVE Unmatched(_, _)
Unmatched(n, od) ==
  IF DOMAIN children[n] # {}
  THEN /\ Len(od) > 0
       /\ \/ od[1].name \notin DOMAIN children[n]
          \/ /\ od[1].name \in DOMAIN children[n]
             /\ Unmatched(children[n][od[1].name],
                          IF od[1].kind = "path" THEN od[1].options ELSE <<>>)
  ELSE \E j \in 1..Len(od) :
         /\ od[j].name \notin OptionNames(n)
         /\ \A i \in 1..(j - 1) : FrameBinds(n, od, i)

DesyncErrors == {Err("KeyError", "call"), Err("NotImplementedError", "call_slash")}

\* C9: when the router meets a frame it cannot match, the dispatch ends with
\* the error of the failed match, and no check, hook, callback or handler of
\* the leaf runs for the interaction.
C9_Desync ==
  Unmatched(interaction.cmd, interaction.options) =>
    /\ application_command = "none"
    /\ \A j \in 1..Len(log) : log[j].k = "resolve"
    /\ invoked = <<>>
    /\ ~InCanRun
    /\ pc = "done" => raised \in DesyncErrors

\* a value frame naming no option, met after a frame that was bound
C9_Witness ==
  /\ pc = "done"
  /\ Unmatched(interaction.cmd, interaction.options)
  /\ raised = Err("NotImplementedError", "call_slash")
  /\ Len(Sel("resolve")) = 1

\* the value frames the interaction carries for the leaf the router reaches
RECURSIVE LeafFrames(_, _)
LeafFrames(n, od) ==
  IF DOMAIN children[n] # {}
  THEN LeafFrames(children[n][od[1].name],
                  IF od[1].kind = "path" THEN od[1].options ELSE <<>>)
  ELSE od

\* C10: the kwargs handed to a callback have exactly one entry per option of
\* the leaf, under the option's keyword: the resolved value of the frame
\* naming the option when the interaction carries one, the option's default
\* (None when none is configured) otherwise.
C10_ArgumentMap ==
  \A c \in 1..Len(invoked) :
    LET n == invoked[c][1]
        kw == invoked[c][2]
        od == LeafFrames(interaction.cmd, interaction.options) IN
    /\ DOMAIN kw = {options[n][i].functional_name : i \in 1..Len(options[n])}
    /\ Cardinality(DOMAIN kw) = Len(options[n])
    /\ \A i \in 1..Len(options[n]) :
         LET o == options[n][i]
             fr == {h \in 1..Len(od) : od[h].name = o.name} IN
         IF fr = {} THEN kw[o.functional_name] = o.default
         ELSE \A h \in fr : kw[o.functional_name] = handle_value(o, od[h].value).v

\* sub invoked with only option a in the interaction: b gets its default
C10_Witness ==
  /\ Len(invoked) = 1
  /\ invoked[1][1] = "sub"
  /\ LeafFrames(interaction.cmd, interaction.options) = <<V("a", "7")>>
  /\ invoked[1][2]["a"] = <<"int", 7>>
  /\ invoked[1][2]["b"] = <<"str", "d">>

(* ===================== autocomplete dispatch ============================ *)
MaxFocusFrames == 2

\* One frame of an autocomplete interaction: a value frame that may carry
\* "focused": true.
F(nm, v, foc) == [name |-> nm, kind |-> "value", value |-> v, focused |-> foc]

FocusFrames ==
  {F(nm, "7", foc) : nm \in {"a", "b", "see", "z"}, foc \in BOOLEAN}
  \cup {F("a", "x", foc) : foc \in BOOLEAN}
FocusLists == SeqsUpTo(FocusFrames, MaxFocusFrames)

\* the option lists an autocomplete interaction may carry
AcOptionData ==
  FocusLists
  \cup {<<P("solo", fl)>> : fl \in FocusLists}
  \cup {<<P("group", <<P(q, fl)>>)>> : q \in {"sub", "zz"}, fl \in FocusLists}

AcInteractions == [cmd : Roots, options : AcOptionData]

\* parameter names an autocomplete callback may declare after the
\* interaction and the focused value
AcParams == {"a", "b", "c"}

\* what from_autocomplete leaves on the options: the options named in wired
\* carry a callback that declares the extra parameters in declared
Wiring(wired, declared) ==
  [n \in Nodes |->
     [o \in OptionNames(n) |->
        IF o \in wired THEN [callback |-> TRUE, options |-> declared] ELSE NoWiring]]

\* what an autocomplete callback may return: None, no choice, one choice
AcResults == {None, <<>>, <<"choice">>}

\* truth value of the returned object
Truthy(v) == v \notin {None, <<>>}

InitAC ==
  /\ children = TreeChildren
  /\ options = TreeOptions
  /\ checks = [n \in Nodes |-> <<>>]
  /\ before_invoke = {}
  /\ after_invoke = {}
  /\ error_callback = {}
  /\ parent_cog = FALSE
  /\ cog_overrides = {}
  /\ global_checks = <<>>
  /\ state_before_invoke = FALSE
  /\ state_after_invoke = FALSE
  /\ \E ia \in AcInteractions, wired \in SUBSET {"a", "b", "see"},
        declared \in SUBSET AcParams :
       /\ interaction = ia
       /\ node = ia.cmd
       /\ autocomplete = Wiring(wired, declared)
  /\ application_command = "none"
  /\ pc = "ac_call"
  /\ option_data = <<>>
  /\ idx = 1
  /\ uncalled_args = {}
  /\ kwargs = EmptyKwargs
  /\ error = NoErr
  /\ pending = NoErr
  /\ raised = NoErr
  /\ invoked = <<>>
  /\ log = <<>>
  /\ AcStart
  /\ PayStart
  /\ RegStart
  /\ LaterStart

\* variables no step of call_autocomplete touches
AcFrame ==
  UNCHANGED <<treeVars, setupVars, payVars, regVars, laterVars, interaction, application_command,
              uncalled_args, error, pending, invoked, log, autocomplete>>

\* arg.get("focused", None) is True
Focused(arg) == "focused" \in DOMAIN arg /\ arg.focused

\* AutocompleteCommandMixin.call_autocomplete, lines 687-691: the option
\* data falls back to the interaction's, and a node with children hands the
\* first frame's nested options to the child it names
AcCall ==
  /\ pc = "ac_call"
  /\ AcFrame
  /\ UNCHANGED <<idx, kwargs, focused_option, focused_option_value,
                 uncalled_options, ac_value, ac_invoked, responded, sent>>
  /\ LET od == IF option_data = <<>> THEN interaction.options ELSE option_data IN
     IF DOMAIN children[node] # {}
     THEN IF Len(od) = 0
          THEN Propagate(Err("LookupError", "call_autocomplete"))
               /\ UNCHANGED <<node, option_data>>
          ELSE IF od[1].name \in DOMAIN children[node]
               THEN /\ node' = children[node][od[1].name]
                    /\ option_data' = IF od[1].kind = "path" THEN od[1].options ELSE <<>>
                    /\ UNCHANGED <<pc, raised>>
               ELSE Propagate(Err("KeyError", "call_autocomplete"))
                    /\ UNCHANGED <<node, option_data>>
     ELSE /\ option_data' = od
          /\ pc' = "ac_focus"
          /\ UNCHANGED <<node, raised>>

\* positions of the focused frames of an option list
FocusedAt(od) == {j \in 1..Len(od) : Focused(od[j])}

\* FocusScan that lets the first focused frame win
FocusScan_First(od) ==
  IF FocusedAt(od) = {}
  THEN [ok |-> FALSE, name |-> "", err |-> Err("ValueError", "missing_focus")]
  ELSE [ok |-> TRUE, name |-> od[CHOOSE j \in FocusedAt(od) :
                                   \A k \in FocusedAt(od) : j <= k].name,
        err |-> NoErr]

\* lines 693-701: the loop that finds the one focused frame
FocusScan(od) ==
  IF Cardinality(FocusedAt(od)) >= 2
  THEN [ok |-> FALSE, name |-> "", err |-> Err("ValueError", "multiple_focus")]
  ELSE IF FocusedAt(od) = {}
  THEN [ok |-> FALSE, name |-> "", err |-> Err("ValueError", "missing_focus")]
  ELSE [ok |-> TRUE, name |-> od[CHOOSE j \in FocusedAt(od) : TRUE].name, err |-> NoErr]

\* lines 693-712: find the focused option, then set up the keyword pass
AcFocus ==
  /\ pc = "ac_focus"
  /\ AcFrame
  /\ UNCHANGED <<node, option_data, ac_value, ac_invoked, responded, sent>>
  /\ LET scan == FocusScan(option_data) IN
     IF ~scan.ok
     THEN Propagate(scan.err)
          /\ UNCHANGED <<idx, kwargs, focused_option, focused_option_value, uncalled_options>>
     ELSE IF scan.name \notin OptionNames(node)
     THEN Propagate(Err("KeyError", "focused_option"))
          /\ UNCHANGED <<idx, kwargs, focused_option, focused_option_value, uncalled_options>>
     ELSE IF ~autocomplete[node][scan.name].callback
     THEN Propagate(Err("ValueError", "no_autocomplete_callback"))
          /\ UNCHANGED <<idx, kwargs, focused_option, focused_option_value, uncalled_options>>
     ELSE /\ focused_option' = scan.name
          /\ kwargs' = EmptyKwargs
          /\ uncalled_options' = autocomplete[node][scan.name].options \ {scan.name}
          /\ focused_option_value' = None
          /\ idx' = 1
          /\ pc' = "ac_bind"
          /\ UNCHANGED raised

\* lines 713-717: one turn of the loop over the frames
AcBind ==
  /\ pc = "ac_bind"
  /\ idx <= Len(option_data)
  /\ AcFrame
  /\ UNCHANGED <<node, option_data, focused_option, ac_value, ac_invoked, responded, sent>>
  /\ LET arg == option_data[idx] IN
     IF /\ arg.name \in OptionNames(node)
        /\ OptionNamed(node, arg.name).functional_name \in uncalled_options
     THEN LET option == OptionNamed(node, arg.name)
              r == handle_value(option, arg.value) IN
          IF r.ok
          THEN /\ uncalled_options' = uncalled_options \ {option.functional_name}
               /\ kwargs' = SetItem(kwargs, option.functional_name, r.v)
               /\ idx' = idx + 1
               /\ UNCHANGED <<pc, raised, focused_option_value>>
          ELSE Propagate(Err("ValueError", "handle_value"))
               /\ UNCHANGED <<idx, kwargs, uncalled_options, focused_option_value>>
     ELSE IF arg.name = focused_option
     THEN LET r == handle_value(OptionNamed(node, focused_option), arg.value) IN
          IF r.ok
          THEN /\ focused_option_value' = r.v
               /\ idx' = idx + 1
               /\ UNCHANGED <<pc, raised, kwargs, uncalled_options>>
          ELSE Propagate(Err("ValueError", "handle_value"))
               /\ UNCHANGED <<idx, kwargs, uncalled_options, focused_option_value>>
     ELSE /\ idx' = idx + 1
          /\ UNCHANGED <<pc, raised, kwargs, uncalled_options, focused_option_value>>

\* lines 718-719: every declared parameter no frame filled gets None
FillNone(kw, uncalled) ==
  [k \in DOMAIN kw \cup uncalled |-> IF k \in uncalled THEN None ELSE kw[k]]

\* lines 718-720: the loop is over, the callback of the focused option is
\* awaited with the focused value and the keywords. The callback is user
\* code: it returns any result or raises, and it may itself respond to the
\* interaction. A declared parameter that gets no keyword makes the call a
\* TypeError unless the callback gave it a default.
AcInvoke ==
  /\ pc = "ac_bind"
  /\ idx > Len(option_data)
  /\ AcFrame
  /\ UNCHANGED <<node, option_data, idx, focused_option, focused_option_value>>
  /\ LET kw == FillNone(kwargs, uncalled_options)
         call == [node |-> node, option |-> focused_option,
                  value |-> focused_option_value, kwargs |-> kw] IN
     /\ kwargs' = kw
     /\ uncalled_options' = uncalled_options
     /\ \/ /\ DOMAIN kw # autocomplete[node][focused_option].options
           /\ Propagate(Err("TypeError", "invoke_autocomplete_callback"))
           /\ UNCHANGED <<ac_value, ac_invoked, responded, sent>>
        \/ /\ ac_invoked' = Append(ac_invoked, call)
           /\ \E out \in Returns, v \in AcResults, answers \in BOOLEAN :
                /\ responded' = (responded \/ answers)
                /\ sent' = IF answers THEN Append(sent, [by |-> "callback", value |-> <<>>])
                           ELSE sent
                /\ IF out = "raise"
                   THEN Propagate(Err("Exception", "autocomplete_callback"))
                        /\ UNCHANGED ac_value
                   ELSE /\ ac_value' = v
                        /\ pc' = "ac_send"
                        /\ UNCHANGED raised

\* AcSend that transmits every non-empty result
AcSend_Always ==
  /\ pc = "ac_send"
  /\ AcFrame
  /\ UNCHANGED <<node, option_data, idx, kwargs, focused_option, focused_option_value,
                 uncalled_options, ac_value, ac_invoked, raised>>
  /\ IF Truthy(ac_value)
     THEN /\ sent' = Append(sent, [by |-> "call_autocomplete", value |-> ac_value])
          /\ responded' = TRUE
     ELSE UNCHANGED <<sent, responded>>
  /\ pc' = "done"

\* lines 721-722: if value and not interaction.response.is_done():
\*                    await interaction.response.send_autocomplete(value)
\* (a sender of the response sets _responded, as inters.py line 540 does)
AcSend ==
  /\ pc = "ac_send"
  /\ AcFrame
  /\ UNCHANGED <<node, option_data, idx, kwargs, focused_option, focused_option_value,
                 uncalled_options, ac_value, ac_invoked, raised>>
  /\ IF Truthy(ac_value) /\ ~responded
     THEN /\ sent' = Append(sent, [by |-> "call_autocomplete", value |-> ac_value])
          /\ responded' = TRUE
     ELSE UNCHANGED <<sent, responded>>
  /\ pc' = "done"

NextAC ==
  \/ AcCall
  \/ AcFocus
  \/ AcBind
  \/ AcInvoke
  \/ AcSend

SpecAC == InitAC /\ [][NextAC]_vars

(* ------------------- autocomplete dispatch: properties ------------------ *)
\* the router reached a leaf and the scan for the focused frame has run
AcAtLeaf ==
  \/ pc \in {"ac_bind", "ac_send"}
  \/ pc = "done" /\ raised.src # "call_autocomplete"

\* the frames the autocomplete interaction carries for the leaf
AcLeafFrames == LeafFrames(interaction.cmd, interaction.options)

\* C11: autocomplete routing on a leaf requires exactly one focused frame:
\* with no focused frame it fails with the missing-focus error, with two or
\* more with the multiple-focus error, and in both cases no autocomplete
\* callback is invoked and nothing is sent.
C11_FocusRequired ==
  AcAtLeaf =>
    LET n == Cardinality(FocusedAt(AcLeafFrames)) IN
    n # 1 =>
      /\ raised = IF n = 0 THEN Err("ValueError", "missing_focus")
                           ELSE Err("ValueError", "multiple_focus")
      /\ pc = "done"
      /\ ac_invoked = <<>>
      /\ sent = <<>>

\* sub reached with two focused frames: the multiple-focus error was raised
C11_Witness ==
  /\ AcAtLeaf
  /\ node = "sub"
  /\ Cardinality(FocusedAt(AcLeafFrames)) = 2
  /\ raised = Err("ValueError", "multiple_focus")
  /\ autocomplete["sub"]["a"].callback

\* the non-focused frames of the leaf that name the option whose keyword is p
FramesFor(n, od, p) ==
  {h \in 1..Len(od) : /\ ~Focused(od[h])
                      /\ od[h].name \in OptionNames(n)
                      /\ OptionNamed(n, od[h].name).functional_name = p}

\* C12: the autocomplete callback of the focused option is invoked with the
\* resolved value of the focused frame and with exactly one keyword per
\* extra parameter it declares: the resolved value of a non-focused frame
\* for that option when the interaction carries one, None otherwise; frames
\* of options it does not declare are not passed.
C12_AutocompleteKwargs ==
  \A c \in 1..Len(ac_invoked) :
    LET call == ac_invoked[c]
        od == AcLeafFrames
        foc == od[CHOOSE j \in FocusedAt(od) : TRUE]
        declared == autocomplete[call.node][call.option].options IN
    /\ foc.name = call.option
    /\ call.value = handle_value(OptionNamed(call.node, call.option), foc.value).v
    /\ DOMAIN call.kwargs = declared
    /\ \A p \in declared \cap DOMAIN call.kwargs :
         LET fr == FramesFor(call.node, od, p) IN
         IF fr = {} THEN call.kwargs[p] = None
         ELSE \E h \in fr :
                call.kwargs[p] = handle_value(OptionNamed(call.node, od[h].name), od[h].value).v

\* C13: the result of the autocomplete callback is handed to the response
\* if and only if it is non-empty and nothing has responded to the
\* interaction yet, so that routing never transmits a second response.
C13_SendIffFresh ==
  LET routed == {j \in 1..Len(sent) : sent[j].by = "call_autocomplete"}
      answered == \E j \in 1..Len(sent) : sent[j].by = "callback" IN
  /\ Len(sent) <= 1
  /\ \A j \in routed : pc = "done" /\ raised = NoErr /\ sent[j].value = ac_value
  /\ (pc = "done" /\ raised = NoErr) =>
       ((routed # {}) <=> (Truthy(ac_value) /\ ~answered))

\* the callback returned a choice and routing transmitted it
C13_Witness ==
  /\ pc = "done"
  /\ raised = NoErr
  /\ Len(ac_invoked) = 1
  /\ sent = <<[by |-> "call_autocomplete", value |-> <<"choice">>]>>

(* ========================= payload synthesis ============================ *)
\* the description of every node and option that sets none
DEFAULT_SLASH_DESCRIPTION == "No description provided."

\* the order in which nodes were attached (dict insertion order)
NodeOrder == <<"cmd", "group", "sub", "solo", "flat">>

\* self.children.values(), in insertion order
ChildSeq(n) ==
  SelectSeq(NodeOrder, LAMBDA c : c \in {children[n][k] : k \in DOMAIN children[n]})

\* guild scopes: 0 stands for None (a global command)
GuildIds == {1, 2}
Scopes == {0} \cup GuildIds

\* ApplicationCommandOptionType / ApplicationCommandType values
OptionTypeValue(ty) == IF ty = "integer" THEN 4 ELSE 3

\* ApplicationCommandOption.payload: required is True exactly when the
\* parameter has no default (SlashCommandOption.__init__)
OptionPayload(o) ==
  LET ret == [type |-> OptionTypeValue(o.type), name |-> o.name,
              description |-> DEFAULT_SLASH_DESCRIPTION] IN
  IF o.default = None THEN SetItem(ret, "required", TRUE) ELSE ret

\* [parameter.payload for parameter in self.options.values()]
OptionPayloads(n) == [j \in 1..Len(options[n]) |-> OptionPayload(options[n][j])]

\* SlashApplicationSubcommand.payload
RECURSIVE payload(_)
payload(n) ==
  LET ret == [type |-> IF DOMAIN children[n] # {} THEN 2 ELSE 1, name |-> n,
              description |-> DEFAULT_SLASH_DESCRIPTION] IN
  IF DOMAIN children[n] # {}
  THEN SetItem(ret, "options", [j \in 1..Len(ChildSeq(n)) |-> payload(ChildSeq(n)[j])])
  ELSE IF options[n] # <<>>
  THEN SetItem(ret, "options", OptionPayloads(n))
  ELSE ret

\* SlashApplicationCommand.get_payload over BaseApplicationCommand.get_payload
\* (no default_member_permissions, no dm_permission)
get_payload(n, guild_id) ==
  LET base == [type |-> 1, name |-> n, description |-> DEFAULT_SLASH_DESCRIPTION]
      ret == IF guild_id # 0 THEN SetItem(base, "guild_id", guild_id) ELSE base IN
  IF DOMAIN children[n] # {}
  THEN SetItem(ret, "options", [j \in 1..Len(ChildSeq(n)) |-> payload(ChildSeq(n)[j])])
  ELSE SetItem(ret, "options", OptionPayloads(n))

(* ========================= payload comparison =========================== *)
\* int(...) of the guild id text Discord sends
GuildInt(text) == CASE text = "1" -> 1 [] text = "2" -> 2 [] OTHER -> 9

\* check_dictionary_values for one keyword: dict1.get(k) == dict2.get(k)
SameValue(dict1, dict2, k) ==
  IF k \in DOMAIN dict1 /\ k \in DOMAIN dict2 THEN dict1[k] = dict2[k]
  ELSE k \notin DOMAIN dict1 /\ k \notin DOMAIN dict2

check_dictionary_values(dict1, dict2, keywords) ==
  \A k \in keywords : SameValue(dict1, dict2, k)

\* deep_dictionary_check: the key sets are equal and so is every value. No
\* value of an option payload is itself a dict (nested options and choices
\* are lists), so every value goes through the != of line 3461, which
\* compares lists element by element, in order.
deep_dictionary_check(dict1, dict2) ==
  /\ DOMAIN dict1 = DOMAIN dict2
  /\ \A k \in DOMAIN dict1 : dict1[k] = dict2[k]

\* payload.get("options", [])
OptionsOf(p) == IF "options" \in DOMAIN p THEN p.options ELSE <<>>

\* is_payload_valid that compares the option lists position by position
is_payload_valid_Ordered(n, raw, guild_id) ==
  LET cmd_payload == get_payload(n, guild_id)
      raw_guild == IF "guild_id" \in DOMAIN raw THEN GuildInt(raw.guild_id) ELSE 0 IN
  /\ (IF "guild_id" \in DOMAIN cmd_payload THEN cmd_payload.guild_id ELSE 0) = raw_guild
  /\ check_dictionary_values(cmd_payload, raw, {"description", "type", "name"})
  /\ OptionsOf(cmd_payload) = OptionsOf(raw)

\* is_payload_valid without the comparison of the option counts
is_payload_valid_NoCount(n, raw, guild_id) ==
  LET cmd_payload == get_payload(n, guild_id)
      raw_guild == IF "guild_id" \in DOMAIN raw THEN GuildInt(raw.guild_id) ELSE 0
      cmd_options == OptionsOf(cmd_payload)
      raw_options == OptionsOf(raw) IN
  /\ (IF "guild_id" \in DOMAIN cmd_payload THEN cmd_payload.guild_id ELSE 0) = raw_guild
  /\ check_dictionary_values(cmd_payload, raw, {"description", "type", "name"})
  /\ \A i \in 1..Len(cmd_options) :
       LET same == {j \in 1..Len(raw_options) : raw_options[j].name = cmd_options[i].name} IN
       /\ same # {}
       /\ deep_dictionary_check(cmd_options[i],
                                raw_options[CHOOSE j \in same : \A k \in same : j <= k])

\* BaseApplicationCommand.is_payload_valid
is_payload_valid(n, raw, guild_id) ==
  LET cmd_payload == get_payload(n, guild_id)
      raw_guild == IF "guild_id" \in DOMAIN raw THEN GuildInt(raw.guild_id) ELSE 0
      cmd_options == OptionsOf(cmd_payload)
      raw_options == OptionsOf(raw) IN
  /\ (IF "guild_id" \in DOMAIN cmd_payload THEN cmd_payload.guild_id ELSE 0) = raw_guild
  /\ check_dictionary_values(cmd_payload, raw, {"description", "type", "name"})
  /\ Len(cmd_options) = Len(raw_options)
  /\ \A i \in 1..Len(cmd_options) :
       LET same == {j \in 1..Len(raw_options) : raw_options[j].name = cmd_options[i].name} IN
       /\ same # {}
       /\ deep_dictionary_check(cmd_options[i],
                                raw_options[CHOOSE j \in same : \A k \in same : j <= k])

(* ------------------- the remote payload under comparison ---------------- *)
MaxEdits == 2

\* nothing registered on the nodes: no checks, hooks, handlers or cog
SetupIdle ==
  /\ checks = [n \in Nodes |-> <<>>]
  /\ before_invoke = {}
  /\ after_invoke = {}
  /\ error_callback = {}
  /\ parent_cog = FALSE
  /\ cog_overrides = {}
  /\ global_checks = <<>>
  /\ state_before_invoke = FALSE
  /\ state_after_invoke = FALSE

\* no interaction is being dispatched
RunIdle ==
  /\ interaction = [cmd |-> "cmd", options |-> <<>>]
  /\ application_command = "none"
  /\ option_data = <<>>
  /\ idx = 1
  /\ uncalled_args = {}
  /\ kwargs = EmptyKwargs
  /\ error = NoErr
  /\ pending = NoErr
  /\ raised = NoErr
  /\ invoked = <<>>
  /\ log = <<>>

\* the text Discord sends for a guild id
GuildText(g) == IF g = 1 THEN "1" ELSE "2"

\* what Discord returns for a payload it registered unchanged
Registered(p) ==
  IF "guild_id" \in DOMAIN p THEN [p EXCEPT !.guild_id = GuildText(@)] ELSE p

\* a list with the entries at i and i + 1 exchanged
Swap(s, i) ==
  [j \in 1..Len(s) |-> IF j = i THEN s[i + 1] ELSE IF j = i + 1 THEN s[i] ELSE s[j]]

\* a list without the entry at i
Drop(s, i) == [j \in 1..(Len(s) - 1) |-> IF j < i THEN s[j] ELSE s[j + 1]]

\* a second tree: a group with two subcommands under the root cmd
DeepChildren ==
  [n \in Nodes |->
     CASE n = "cmd"   -> [c \in {"group"} |-> c]
       [] n = "group" -> [c \in {"sub", "solo"} |-> c]
       [] OTHER       -> [c \in {} |-> c]]

InitPayload ==
  /\ children \in {TreeChildren, DeepChildren}
  /\ options = TreeOptions
  /\ SetupIdle
  /\ RunIdle
  /\ autocomplete = [n \in Nodes |-> [o \in OptionNames(n) |-> NoWiring]]
  /\ AcStart
  /\ RegStart
  /\ LaterStart
  /\ \E r \in Roots, g \in Scopes :
       /\ node = r
       /\ scope = g
       /\ raw_payload = Registered(get_payload(r, g))
  /\ valid = "unset"
  /\ edits = 0
  /\ pc = "remote"

\* variables the comparison of payloads never touches
PayFrame ==
  /\ pc = "remote"
  /\ edits < MaxEdits
  /\ edits' = edits + 1
  /\ UNCHANGED <<treeVars, setupVars, runVars, acVars, regVars, laterVars, scope, valid>>

\* the remote side lists two adjacent top-level options the other way round
RemoteSwapTop ==
  /\ PayFrame
  /\ \E i \in 1..(Len(raw_payload.options) - 1) :
       raw_payload' = [raw_payload EXCEPT !.options = Swap(@, i)]

\* the remote side lists two adjacent nested options the other way round:
\* the options of a subcommand, at depth one or two
RemoteSwapNested ==
  /\ PayFrame
  /\ \E k \in 1..Len(raw_payload.options) :
       /\ "options" \in DOMAIN raw_payload.options[k]
       /\ LET nested == raw_payload.options[k].options IN
          \/ \E i \in 1..(Len(nested) - 1) :
               raw_payload' = [raw_payload EXCEPT !.options[k].options = Swap(@, i)]
          \/ \E j \in 1..Len(nested) :
               /\ "options" \in DOMAIN nested[j]
               /\ \E i \in 1..(Len(nested[j].options) - 1) :
                    raw_payload' =
                      [raw_payload EXCEPT !.options[k].options[j].options = Swap(@, i)]

\* the remote side has a top-level option under another name
RemoteRenameOption ==
  /\ PayFrame
  /\ \E k \in 1..Len(raw_payload.options), nm \in {"zz", "solo"} :
       /\ raw_payload.options[k].name # nm
       /\ raw_payload' = [raw_payload EXCEPT !.options[k].name = nm]

\* the remote side lacks a top-level option
RemoteDropOption ==
  /\ PayFrame
  /\ \E k \in 1..Len(raw_payload.options) :
       raw_payload' = [raw_payload EXCEPT !.options = Drop(@, k)]

\* the remote side has one more top-level option
RemoteAddOption ==
  /\ PayFrame
  /\ raw_payload' = [raw_payload EXCEPT !.options =
                       Append(@, [type |-> 3, name |-> "zz", description |-> "zz"])]

\* the remote side differs in a top-level field
RemoteSetTop ==
  /\ PayFrame
  /\ \/ \E k \in {"name", "description"} :
          raw_payload' = [raw_payload EXCEPT ![k] = "zz"]
     \/ raw_payload' = [raw_payload EXCEPT !.type = 2]
     \/ \E g \in GuildIds :
          /\ IF "guild_id" \in DOMAIN raw_payload
             THEN raw_payload.guild_id # GuildText(g) ELSE TRUE
          /\ raw_payload' = SetItem(raw_payload, "guild_id", GuildText(g))

\* the remote side differs inside a top-level option
RemoteEditOption ==
  /\ PayFrame
  /\ \E k \in 1..Len(raw_payload.options) :
       raw_payload' = [raw_payload EXCEPT !.options[k].description = "zz"]

\* is_payload_valid(raw_payload, guild_id) is called on the root
IsPayloadValid ==
  /\ pc = "remote"
  /\ valid' = IF is_payload_valid(node, raw_payload, scope) THEN "true" ELSE "false"
  /\ pc' = "done"
  /\ UNCHANGED <<treeVars, setupVars, acVars, regVars, laterVars, raw_payload, scope, edits,
                 interaction, application_command, node, option_data, idx,
                 uncalled_args, kwargs, error, pending, raised, invoked, log>>

NextPayload ==
  \/ RemoteSwapTop
  \/ RemoteSwapNested
  \/ RemoteRenameOption
  \/ RemoteDropOption
  \/ RemoteAddOption
  \/ RemoteSetTop
  \/ RemoteEditOption
  \/ IsPayloadValid

SpecPayload == InitPayload /\ [][NextPayload]_vars

(* -------------------- payload comparison: properties -------------------- *)
\* the permutations of 1..n
PermsOf(n) == {f \in [1..n -> 1..n] : \A i, j \in 1..n : f[i] = f[j] => i = j}

\* C14: is_payload_valid is order-independent on the option array: every
\* remote payload that differs from the one at hand only by a permutation
\* of the top-level options gets the same verdict.
C14_OrderIndependent ==
  pc \in {"remote", "done"} =>
    \A f \in PermsOf(Len(raw_payload.options)) :
      is_payload_valid(node, [raw_payload EXCEPT !.options =
                                [i \in 1..Len(raw_payload.options) |-> raw_payload.options[f[i]]]],
                       scope)
        = is_payload_valid(node, raw_payload, scope)

\* the remote payload lists group and solo the other way round and is valid
C14_Witness ==
  /\ pc = "done"
  /\ node = "cmd"
  /\ Len(get_payload(node, scope).options) = 2
  /\ raw_payload = [Registered(get_payload(node, scope)) EXCEPT !.options = Swap(@, 1)]
  /\ valid = "true"

\* the top-level fields of the local and the remote payload agree
TopAgree(cmd_payload, raw) ==
  /\ cmd_payload.name = raw.name
  /\ cmd_payload.description = raw.description
  /\ cmd_payload.type = raw.type
  /\ IF "guild_id" \in DOMAIN cmd_payload
     THEN "guild_id" \in DOMAIN raw /\ raw.guild_id = GuildText(cmd_payload.guild_id)
     ELSE "guild_id" \notin DOMAIN raw

\* two option payloads are equal up to the order of their nested arrays:
\* each entry is matched to the one entry of the same name
RECURSIVE EqModOrder(_, _)
EqModOrder(d1, d2) ==
  /\ DOMAIN d1 = DOMAIN d2
  /\ \A k \in DOMAIN d1 \ {"options"} : d1[k] = d2[k]
  /\ "options" \in DOMAIN d1 =>
       /\ Len(d1.options) = Len(d2.options)
       /\ \A i \in 1..Len(d1.options) :
            LET same == {j \in 1..Len(d2.options) : d2.options[j].name = d1.options[i].name} IN
            /\ Cardinality(same) = 1
            /\ \A j \in same : EqModOrder(d1.options[i], d2.options[j])

\* C15: the set-keyed comparison applies recursively: a remote payload that
\* differs from the local one only by the order of its option arrays,
\* nested ones included, is valid.
C15_NestedOrderIgnored ==
  LET cmd_payload == get_payload(node, scope) IN
  (/\ pc = "done"
   /\ TopAgree(cmd_payload, raw_payload)
   /\ EqModOrder([options |-> cmd_payload.options], [options |-> raw_payload.options]))
    => valid = "true"

\* C16: is_payload_valid returns false whenever a local top-level option has
\* no remote option of the same name, whenever the option counts differ, and
\* whenever name, description, type or guild id differ at the top level.
C16_MismatchRejected ==
  LET cmd_payload == get_payload(node, scope) IN
  (/\ pc = "done"
   /\ \/ ~TopAgree(cmd_payload, raw_payload)
      \/ Len(cmd_payload.options) # Len(raw_payload.options)
      \/ \E i \in 1..Len(cmd_payload.options) :
           \A j \in 1..Len(raw_payload.options) :
             raw_payload.options[j].name # cmd_payload.options[i].name)
    => valid = "false"

\* one option of cmd was renamed remotely and the payload was rejected
C16_Witness ==
  LET cmd_payload == get_payload(node, scope) IN
  /\ pc = "done"
  /\ valid = "false"
  /\ TopAgree(cmd_payload, raw_payload)
  /\ Len(cmd_payload.options) = Len(raw_payload.options)
  /\ \E k \in 1..Len(raw_payload.options) :
       raw_payload = [Registered(cmd_payload) EXCEPT !.options[k].name = "zz"]

(* ====================== binding and registration ======================== *)
MaxOps == 2

\* the coroutine functions a node may be bound to
Callbacks == {"f0", "f1", "f2", "f3"}

\* the parameters a callback declares after the context parameters, each as
\* the option SlashCommandOption builds from it
Params(cb) ==
  CASE cb = "f1" -> <<Opt("a", "a", "integer", None), Opt("b", "b", "string", <<"str", "d">>)>>
    [] cb = "f2" -> <<Opt("see", "c", "integer", <<"int", 0>>), Opt("a", "a", "integer", None)>>
    [] cb = "f3" -> <<Opt("b", "b", "string", <<"str", "d">>)>>
    [] OTHER     -> <<>>

\* signature(self.callback).parameters: self when the callback lives on a
\* cog, the interaction, then the declared parameters
Signature(cb, cog) ==
  (IF cog THEN <<Opt("self", "self", "context", None)>> ELSE <<>>)
  \o <<Opt("interaction", "interaction", "context", None)>>
  \o Params(cb)

\* self.options[arg.name] = arg on the ordered dict: a name already present
\* keeps its place, a new name goes to the end
Store(opts, arg) ==
  IF \E i \in 1..Len(opts) : opts[i].name = arg.name
  THEN [i \in 1..Len(opts) |-> IF opts[i].name = arg.name THEN arg ELSE opts[i]]
  ELSE Append(opts, arg)

\* the loop of CallbackMixin.from_callback from parameter j on: the first
\* parameter is skipped, and the one after it too when there is a cog
RECURSIVE StoreParams(_, _, _, _, _)
StoreParams(opts, sig, j, first_arg, self_skip) ==
  IF j > Len(sig) THEN opts
  ELSE IF first_arg
  THEN IF ~self_skip THEN StoreParams(opts, sig, j + 1, FALSE, self_skip)
       ELSE StoreParams(opts, sig, j + 1, first_arg, FALSE)
  ELSE StoreParams(Store(opts, sig[j]), sig, j + 1, first_arg, self_skip)

\* CallbackMixin.from_callback: the options dict after the loop
CallbackMixin_from_callback(opts, cb, cog) ==
  StoreParams(opts, Signature(cb, cog), 1, TRUE, cog)

\* from_autocomplete finds an option for every registered keyword
AutocompleteFound(opts, temp) ==
  \A arg_name \in DOMAIN temp :
    \E i \in 1..Len(opts) : opts[i].functional_name = arg_name

\* for modify_callback in self.modify_callbacks: modify_callback(self), with
\* CheckWrapper.modify: app_cmd.checks.append(self.predicate)
Modified(chk, modifiers) == chk \o modifiers

\* the names of an ordered option dict
NamesOf(opts) == {opts[i].name : i \in 1..Len(opts)}

\* the wiring of the options after CallbackMixin.from_callback: an option
\* built by this bind starts unwired (AutocompleteOptionMixin.__init__), an
\* option left over from an earlier bind keeps its wiring
Unwired(old, opts, cb) ==
  [o \in NamesOf(opts) |-> IF o \in NamesOf(Params(cb)) THEN NoWiring ELSE old[o]]

\* from_autocomplete with from_autocomplete_callback: every option whose
\* keyword has a registered callback gets it, and the extra parameters the
\* callback declares are added to its autocomplete_options
Rewired(w, opts, temp) ==
  [o \in DOMAIN w |->
     LET fn == opts[CHOOSE i \in 1..Len(opts) : opts[i].name = o].functional_name IN
     IF fn \in DOMAIN temp
     THEN [callback |-> TRUE, options |-> w[o].options \cup temp[fn]]
     ELSE w[o]]

\* the part of the tree a bind works on
BindState ==
  [options |-> options, autocomplete |-> autocomplete, checks |-> checks,
   callback |-> callback, ok |-> TRUE]

\* one step of a bind on node n: "options" is CallbackMixin.from_callback,
\* "autocomplete" is from_autocomplete, "modify" the modify callbacks
Ev(kind, n) == [kind |-> kind, node |-> n]

RECURSIVE SubEvents(_, _)
RECURSIVE EachEvents(_, _)

\* SlashApplicationSubcommand.from_callback: options, then the children,
\* then the modify callbacks, then from_autocomplete
SubEvents(n, call_children) ==
  <<Ev("options", n)>>
  \o (IF call_children THEN EachEvents(ChildSeq(n), 1) ELSE <<>>)
  \o <<Ev("modify", n), Ev("autocomplete", n)>>

\* for child in self.children.values(): child.from_callback(child.callback, ...)
EachEvents(seq, j) ==
  IF j > Len(seq) THEN <<>> ELSE SubEvents(seq[j], TRUE) \o EachEvents(seq, j + 1)

\* SlashApplicationCommand.from_callback: options, from_autocomplete, the
\* children, the modify callbacks
RootEvents(n, call_children) ==
  <<Ev("options", n), Ev("autocomplete", n)>>
  \o (IF call_children THEN EachEvents(ChildSeq(n), 1) ELSE <<>>)
  \o <<Ev("modify", n)>>

\* from_callback of the class of the node
BindEvents(n, call_children) ==
  IF n \in Roots THEN RootEvents(n, call_children) ELSE SubEvents(n, call_children)

\* from_callback(value.callback, ...) on one node after the other
RECURSIVE AllEvents(_, _, _)
AllEvents(seq, j, call_children) ==
  IF j > Len(seq) THEN <<>>
  ELSE BindEvents(seq[j], call_children) \o AllEvents(seq, j + 1, call_children)

\* the options of node n after CallbackMixin.from_callback(cb); a root runs
\* it twice, through BaseApplicationCommand and through SlashCommandMixin
BoundOptions(st, n, cb) ==
  LET once == CallbackMixin_from_callback(st.options[n], cb, parent_cog) IN
  IF n \in Roots THEN CallbackMixin_from_callback(once, cb, parent_cog) ELSE once

\* the tree after the steps in events, the node named target being bound to
\* cb and every other node to its own callback. The steps stop with the
\* first from_autocomplete that raises ValueError; "ok" tells there was none.
Bound(st, events, target, cb) ==
  LET cbOf == [n \in Nodes |-> IF n = target THEN cb ELSE st.callback[n]]
      opts == [n \in Nodes |-> BoundOptions(st, n, cbOf[n])]
      fails == {i \in 1..Len(events) :
                  /\ events[i].kind = "autocomplete"
                  /\ ~AutocompleteFound(opts[events[i].node],
                                        temp_autocomplete_callbacks[events[i].node])}
      cut == IF fails = {} THEN Len(events) ELSE CHOOSE i \in fails : \A k \in fails : i <= k
      done == {events[i] : i \in 1..cut}
      w == [n \in Nodes |-> Unwired(st.autocomplete[n], opts[n], cbOf[n])] IN
  [options |-> [n \in Nodes |-> IF Ev("options", n) \in done THEN opts[n] ELSE st.options[n]],
   callback |-> [n \in Nodes |-> IF Ev("options", n) \in done THEN cbOf[n] ELSE st.callback[n]],
   checks |-> [n \in Nodes |-> IF Ev("modify", n) \in done
                               THEN Modified(st.checks[n], modify_callbacks[n])
                               ELSE st.checks[n]],
   autocomplete |-> [n \in Nodes |->
                       IF Ev("autocomplete", n) \in done
                       THEN Rewired(w[n], opts[n], temp_autocomplete_callbacks[n])
                       ELSE IF Ev("options", n) \in done THEN w[n]
                       ELSE st.autocomplete[n]],
   ok |-> fails = {}]

\* the nodes from_callback is called on directly, and the remote ids and
\* their text in a registration response
BindNodes == {"sub", "flat"}
RemoteIds == {"10", "11"}
IdInt(text) == IF text = "10" THEN 10 ELSE 11

\* the callbacks the decorators gave the nodes
DecoratedCallback ==
  [n \in Nodes |-> CASE n = "sub" -> "f1" [] n = "flat" -> "f2" [] OTHER -> "f0"]

\* the tree as the constructors leave it: no option, no check, no wiring
Unbound ==
  [options |-> [n \in Nodes |-> <<>>], autocomplete |-> [n \in Nodes |-> EmptyDict],
   checks |-> [n \in Nodes |-> <<>>], callback |-> DecoratedCallback, ok |-> TRUE]

\* the tree is either unbound or every node was bound once to its callback
InitBind ==
  /\ children = TreeChildren
  /\ before_invoke = {}
  /\ after_invoke = {}
  /\ error_callback = {}
  /\ parent_cog \in BOOLEAN
  /\ cog_overrides = {}
  /\ global_checks = <<>>
  /\ state_before_invoke = FALSE
  /\ state_after_invoke = FALSE
  /\ RunIdle
  /\ pc = "setup"
  /\ node = "cmd"
  /\ AcStart
  /\ PayStart
  /\ LaterStart
  /\ modify_callbacks \in {[n \in Nodes |-> <<>>], [n \in Nodes |-> <<1>>]}
  /\ temp_autocomplete_callbacks \in
       {[n \in Nodes |-> EmptyDict],
        [n \in Nodes |-> IF n = "sub" THEN [k \in {"a"} |-> {"b"}] ELSE EmptyDict]}
  /\ \E bound \in BOOLEAN :
       LET st == IF bound THEN Bound(Unbound, AllEvents(NodeOrder, 1, FALSE), "", "")
                 ELSE Unbound IN
       /\ options = st.options
       /\ checks = st.checks
       /\ autocomplete = st.autocomplete
       /\ callback = st.callback
  /\ command_ids = [n \in Roots |-> EmptyDict]
  /\ force_global = [n \in Roots |-> FALSE]
  /\ guild_ids_to_rollout = [n \in Roots |-> {}]
  /\ last_payload = [name |-> ""]
  /\ ops = <<>>

\* variables no operation on the tree touches
bindRest ==
  <<children, before_invoke, after_invoke, error_callback, parent_cog, cog_overrides,
    global_checks, state_before_invoke, state_after_invoke, interaction,
    application_command, pc, node, option_data, idx, uncalled_args, kwargs, error,
    pending, invoked, log, focused_option, focused_option_value, uncalled_options,
    ac_value, ac_invoked, responded, sent, payVars, laterVars, modify_callbacks,
    temp_autocomplete_callbacks, force_global>>

\* what a bind leaves on node n
Snap(st, n) ==
  [options |-> st.options[n], checks |-> st.checks[n], autocomplete |-> st.autocomplete[n]]

\* how many operations were called so far
OpCount == IF ops = <<>> THEN 0 ELSE ops[Len(ops)].seq

\* one entry of ops
Op(nm, n, arg, ok, after) ==
  [seq |-> OpCount + 1, name |-> nm, node |-> n, arg |-> arg, ok |-> ok, after |-> after]

\* ops with one more entry; only the last two are kept
Logged(e) == IF ops = <<>> THEN <<e>> ELSE <<ops[Len(ops)], e>>

\* the tree takes the outcome r of a bind
ApplyBind(r, e) ==
  /\ OpCount < MaxOps
  /\ options' = r.options
  /\ autocomplete' = r.autocomplete
  /\ checks' = r.checks
  /\ callback' = r.callback
  /\ raised' = IF r.ok THEN NoErr ELSE Err("ValueError", "from_autocomplete")
  /\ ops' = Logged(e)
  /\ UNCHANGED <<bindRest, command_ids, guild_ids_to_rollout, last_payload>>

\* from_callback(callback) called on a node
FromCallback ==
  /\ OpCount < MaxOps
  /\ \E n \in BindNodes, cb \in Callbacks \ {"f0"} :
       LET r == Bound(BindState, BindEvents(n, TRUE), n, cb) IN
       ApplyBind(r, Op("from_callback", n, cb, r.ok, Snap(r, n)))

\* ClientCog._read_application_commands: every command and subcommand of
\* the cog is bound to its own callback, without its children
ReadApplicationCommands ==
  /\ parent_cog
  /\ LET r == Bound(BindState, AllEvents(NodeOrder, 1, FALSE), "", "") IN
     ApplyBind(r, Op("_read_application_commands", "cmd", "", r.ok, Snap(r, "cmd")))

\* ClientCog.process_app_cmds: every command of the cog is bound again
ProcessAppCmds ==
  /\ parent_cog
  /\ LET r == Bound(BindState, AllEvents(SelectSeq(NodeOrder, LAMBDA n : n \in Roots), 1, TRUE),
                    "", "") IN
     ApplyBind(r, Op("process_app_cmds", "cmd", "", r.ok, Snap(r, "cmd")))

\* AddGuildRollout that also enters the guild into command_ids
AddGuildRollout_Registers ==
  /\ OpCount < MaxOps
  /\ \E n \in Roots, g \in GuildIds :
       /\ guild_ids_to_rollout' = [guild_ids_to_rollout EXCEPT ![n] = @ \cup {g}]
       /\ command_ids' = [command_ids EXCEPT ![n] = SetItem(@, g, 0)]
       /\ ops' = Logged(Op("add_guild_rollout", n, g, TRUE, Snap(BindState, n)))
  /\ UNCHANGED <<bindRest, options, autocomplete, checks, callback, raised, last_payload>>

\* BaseApplicationCommand.add_guild_rollout
AddGuildRollout ==
  /\ OpCount < MaxOps
  /\ \E n \in Roots, g \in GuildIds :
       /\ guild_ids_to_rollout' = [guild_ids_to_rollout EXCEPT ![n] = @ \cup {g}]
       /\ ops' = Logged(Op("add_guild_rollout", n, g, TRUE, Snap(BindState, n)))
  /\ UNCHANGED <<bindRest, options, autocomplete, checks, callback, raised,
                 command_ids, last_payload>>

\* ParseDiscordResponse that records the id and leaves the rollout set alone
ParseDiscordResponse_NoRollout ==
  /\ OpCount < MaxOps
  /\ \E n \in Roots, id \in RemoteIds, data_guild \in {"", "1"} :
       LET command_id == IdInt(id)
           guild_id == IF data_guild = "" THEN 0 ELSE GuildInt(data_guild) IN
       /\ command_ids' = [command_ids EXCEPT ![n] = SetItem(@, guild_id, command_id)]
       /\ ops' = Logged(Op("parse_discord_response", n,
                                [scope |-> guild_id, id |-> command_id], TRUE,
                                Snap(BindState, n)))
  /\ UNCHANGED <<bindRest, options, autocomplete, checks, callback, raised, last_payload,
                 guild_ids_to_rollout>>

\* BaseApplicationCommand.parse_discord_response
ParseDiscordResponse ==
  /\ OpCount < MaxOps
  /\ \E n \in Roots, id \in RemoteIds, data_guild \in {"", "1"} :
       LET command_id == IdInt(id)
           guild_id == IF data_guild = "" THEN 0 ELSE GuildInt(data_guild) IN
       /\ command_ids' = [command_ids EXCEPT ![n] = SetItem(@, guild_id, command_id)]
       /\ guild_ids_to_rollout' =
            IF guild_id # 0 THEN [guild_ids_to_rollout EXCEPT ![n] = @ \cup {guild_id}]
            ELSE guild_ids_to_rollout
       /\ ops' = Logged(Op("parse_discord_response", n,
                                [scope |-> guild_id, id |-> command_id], TRUE,
                                Snap(BindState, n)))
  /\ UNCHANGED <<bindRest, options, autocomplete, checks, callback, raised, last_payload>>

\* GetPayload that takes the options out of the node it reads
GetPayload_Consuming ==
  /\ OpCount < MaxOps
  /\ \E n \in Roots, g \in {0, 1} :
       /\ last_payload' = get_payload(n, g)
       /\ options' = [options EXCEPT ![n] = <<>>]
       /\ autocomplete' = [autocomplete EXCEPT ![n] = EmptyDict]
       /\ ops' = Logged(Op("get_payload", n, g, TRUE, Snap(BindState, n)))
  /\ UNCHANGED <<bindRest, checks, callback, raised,
                 command_ids, guild_ids_to_rollout>>

\* get_payload(guild_id) called on a root
GetPayload ==
  /\ OpCount < MaxOps
  /\ \E n \in Roots, g \in {0, 1} :
       /\ last_payload' = get_payload(n, g)
       /\ ops' = Logged(Op("get_payload", n, g, TRUE, Snap(BindState, n)))
  /\ UNCHANGED <<bindRest, options, autocomplete, checks, callback, raised,
                 command_ids, guild_ids_to_rollout>>

\* the payload property read on a subcommand or group
Payload ==
  /\ OpCount < MaxOps
  /\ \E n \in Nodes \ Roots :
       /\ last_payload' = payload(n)
       /\ ops' = Logged(Op("payload", n, 0, TRUE, Snap(BindState, n)))
  /\ UNCHANGED <<bindRest, options, autocomplete, checks, callback, raised,
                 command_ids, guild_ids_to_rollout>>

NextBind ==
  \/ FromCallback
  \/ ReadApplicationCommands
  \/ ProcessAppCmds
  \/ AddGuildRollout
  \/ ParseDiscordResponse
  \/ GetPayload
  \/ Payload

SpecBind == InitBind /\ [][NextBind]_vars

(* ------------------ binding and registration: properties ---------------- *)
\* the operation called last
LastOp == ops[Len(ops)]

\* C17: payload synthesis (get_payload on a root, payload on a subcommand)
\* leaves the whole tree unchanged (options, children, checks, wiring,
\* callbacks, remote ids, rollout set), and two syntheses of the same node
\* and scope with no operation in between return equal payloads.
C17_SynthesisPure ==
  [][(OpCount' = OpCount + 1 /\ LastOp'.name \in {"get_payload", "payload"}) =>
       /\ UNCHANGED <<children, options, checks, autocomplete, callback,
                      command_ids, guild_ids_to_rollout>>
       /\ (/\ ops # <<>>
           /\ LastOp.name = LastOp'.name
           /\ LastOp.node = LastOp'.node
           /\ LastOp.arg = LastOp'.arg) => last_payload' = last_payload]_vars

\* flat, bound to f2, was synthesized twice in a row for the same scope
C17_Witness ==
  /\ Len(ops) = 2
  /\ ops[1].name = "get_payload" /\ ops[2].name = "get_payload"
  /\ ops[1].node = "flat" /\ ops[2].node = "flat"
  /\ ops[1].arg = ops[2].arg
  /\ Len(options["flat"]) = 2
  /\ last_payload = get_payload("flat", ops[2].arg)

\* C18: from_callback is idempotent: binding a node to the same callback a
\* second time leaves it as the first bind did: the same option map, the
\* same checks list and the same autocomplete wiring.
C18_BindIdempotent ==
  (/\ Len(ops) = 2
   /\ ops[1].name = "from_callback" /\ ops[2].name = "from_callback"
   /\ ops[1].node = ops[2].node
   /\ ops[1].arg = ops[2].arg
   /\ ops[1].ok /\ ops[2].ok)
    => ops[2].after = ops[1].after

\* C19: after from_callback(callback) the option map of the node holds
\* exactly one option per non-context parameter of the callback, in
\* declaration order, and nothing else, whatever the node was bound to before.
C19_OptionsFromCallback ==
  \A i \in 1..Len(ops) :
    (ops[i].name = "from_callback" /\ ops[i].ok) =>
      ops[i].after.options = Params(ops[i].arg)

\* C20: command_ids changes only when parse_discord_response runs, which
\* sets the id of exactly the scope the response names; from_callback,
\* add_guild_rollout and every other operation leave it unchanged.
C20_IdsOnlyFromResponse ==
  [][IF OpCount' = OpCount + 1 /\ LastOp'.name = "parse_discord_response"
     THEN command_ids' = [command_ids EXCEPT ![LastOp'.node] =
                            SetItem(@, LastOp'.arg.scope, LastOp'.arg.id)]
     ELSE command_ids' = command_ids]_vars

\* flat was registered in a scope and then bound again: the id is still there
C20_Witness ==
  /\ Len(ops) = 2
  /\ ops[1].name = "parse_discord_response" /\ ops[1].node = "flat"
  /\ ops[2].name = "from_callback" /\ ops[2].node = "flat" /\ ops[2].ok
  /\ ops[1].arg.scope \in DOMAIN command_ids["flat"]
  /\ command_ids["flat"][ops[1].arg.scope] = ops[1].arg.id

(* ========================= option definition ============================ *)
\* MISSING, spelled as text so that it compares with every configured value
MISSING == "MISSING"

\* SlashOption(...) as a parameter default
SlashOption(nm, rq, ch, ct, mn, mx, ac, df, vf) ==
  [name |-> nm, required |-> rq, choices |-> ch, channel_types |-> ct,
   min_value |-> mn, max_value |-> mx, autocomplete |-> ac, default |-> df,
   _verify |-> vf]

\* SlashOption(): what SlashCommandOption.__init__ uses when the parameter
\* default is no SlashOption
BareSlashOption ==
  SlashOption(MISSING, MISSING, MISSING, MISSING, MISSING, MISSING, MISSING, MISSING, TRUE)

\* inspect.Parameter: its name, its annotation and its default, which is
\* empty, a plain value or a SlashOption (held in cmd_arg)
Parameter(nm, annotation, default, cmd_arg) ==
  [name |-> nm, annotation |-> annotation, default |-> default, cmd_arg |-> cmd_arg]

\* typing.get_args(parameter.annotation)
get_args(annotation) ==
  IF annotation = "Optional[int]" THEN {"int", "NoneType"} ELSE {}

\* SlashCommandOption.option_types
option_types ==
  [t \in {"str", "int", "float", "GuildChannel"} |->
     CASE t = "str" -> "string" [] t = "int" -> "integer"
       [] t = "float" -> "number" [] OTHER -> "channel"]

\* SlashCommandOption.get_type; "NotImplementedError" when it raises
get_type(param_typing) ==
  IF param_typing = "empty" THEN "string"
  ELSE IF param_typing \in DOMAIN option_types THEN option_types[param_typing]
  ELSE IF /\ "NoneType" \in get_args(param_typing)
          /\ \E t \in get_args(param_typing) \ {"NoneType"} : t \in DOMAIN option_types
  THEN option_types[CHOOSE t \in get_args(param_typing) \ {"NoneType"} :
                      t \in DOMAIN option_types]
  ELSE "NotImplementedError"

\* the required flag with the default tested before the explicit setting
Required_DefaultFirst(parameter) ==
  LET cmd_arg == parameter.cmd_arg IN
  IF cmd_arg.default # MISSING THEN FALSE
  ELSE IF cmd_arg.required # MISSING THEN cmd_arg.required = "True"
  ELSE IF "NoneType" \in get_args(parameter.annotation) THEN FALSE
  ELSE IF parameter.default = "value" THEN FALSE
  ELSE TRUE

\* self.required as SlashCommandOption.__init__ computes it
Required(parameter) ==
  LET cmd_arg == parameter.cmd_arg
      cmd_arg_given == parameter.default = "SlashOption" IN
  IF cmd_arg.required # MISSING THEN cmd_arg.required = "True"
  ELSE IF "NoneType" \in get_args(parameter.annotation) THEN FALSE
  ELSE IF cmd_arg.default # MISSING THEN FALSE
  ELSE IF parameter.default # "empty" /\ ~cmd_arg_given THEN FALSE
  ELSE TRUE

\* SlashOption.verify: TRUE when it raises ValueError
SlashOption_verify(o) == o.choices # MISSING /\ o.autocomplete = "True"

\* SlashCommandOption.verify: TRUE when it raises ValueError. The bounds
\* drawn here are integers, so the two tests of their type never raise.
SlashCommandOption_verify(o) ==
  \/ SlashOption_verify(o)
  \/ o.channel_types # MISSING /\ o.type # "channel"
  \/ (o.min_value # MISSING \/ o.max_value # MISSING) /\ o.type \notin {"integer", "number"}

\* the option SlashCommandOption.__init__ builds from a parameter.
\* SlashOption.__init__(self) leaves channel_types MISSING and nothing copies
\* cmd_arg.channel_types; the default becomes None when none is configured.
SlashCommandOption(parameter) ==
  LET cmd_arg == parameter.cmd_arg IN
  [name |-> IF cmd_arg.name # MISSING THEN cmd_arg.name ELSE parameter.name,
   functional_name |-> parameter.name,
   required |-> Required(parameter),
   choices |-> cmd_arg.choices,
   channel_types |-> MISSING,
   min_value |-> cmd_arg.min_value,
   max_value |-> cmd_arg.max_value,
   autocomplete |-> cmd_arg.autocomplete,
   default |-> IF parameter.default = "value" THEN "value"
               ELSE IF cmd_arg.default = MISSING THEN "None" ELSE cmd_arg.default,
   type |-> get_type(parameter.annotation),
   autocomplete_callback |-> FALSE]

\* the exception SlashCommandOption.__init__ raises for a parameter, "" when
\* it returns
BuildError(parameter) ==
  LET o == SlashCommandOption(parameter) IN
  IF o.type = "NotImplementedError" THEN "NotImplementedError"
  ELSE IF parameter.cmd_arg._verify /\ SlashCommandOption_verify(o) THEN "ValueError"
  ELSE ""

\* parameter declarations: the ones that matter for the required flag, for
\* choices and autocomplete, for bounds and channel filters, for the name
RequiredDecls(nm) ==
  {Parameter(nm, an, df, BareSlashOption) :
     an \in {"int", "Optional[int]"}, df \in {"empty", "value"}}
  \cup {Parameter(nm, an, "SlashOption",
                  [BareSlashOption EXCEPT !.required = rq, !.default = df]) :
          an \in {"int", "Optional[int]"}, rq \in {MISSING, "True", "False"},
          df \in {MISSING, "value"}}
ChoiceDecls(nm) ==
  {Parameter(nm, "str", "SlashOption",
             [BareSlashOption EXCEPT !.choices = ch, !.autocomplete = ac, !._verify = vf]) :
     ch \in {MISSING, "choices"}, ac \in {MISSING, "True", "False"}, vf \in BOOLEAN}
BoundDecls(nm) ==
  {Parameter(nm, an, "SlashOption",
             [BareSlashOption EXCEPT !.min_value = mn, !.max_value = mx,
                                     !.channel_types = ct, !._verify = vf]) :
     an \in {"empty", "int", "float", "str", "GuildChannel", "dict"},
     mn \in {MISSING, "1"}, mx \in {MISSING, "9"}, ct \in {MISSING, "text"},
     vf \in BOOLEAN}
NameDecls(nm) ==
  {Parameter(nm, "int", "SlashOption", [BareSlashOption EXCEPT !.name = x]) :
     x \in {MISSING, "a", "b"}}
Decls(nm) == RequiredDecls(nm) \cup ChoiceDecls(nm) \cup BoundDecls(nm) \cup NameDecls(nm)

\* the keywords on_autocomplete may be called with
Keywords == {"a", "b", "zz"}

\* a callback with one or two parameters after the interaction is about to
\* be declared
InitOption ==
  /\ children = TreeChildren
  /\ options = TreeOptions
  /\ autocomplete = [n \in Nodes |-> [o \in OptionNames(n) |-> NoWiring]]
  /\ SetupIdle
  /\ RunIdle
  /\ AcStart
  /\ PayStart
  /\ RegStart
  /\ pc = "idle"
  /\ node = "flat"
  /\ parameters \in {<<a>> : a \in Decls("a")}
                    \cup {<<a, b>> : a \in NameDecls("a") \cup ChoiceDecls("a"),
                                     b \in NameDecls("b")}
  /\ on_kwargs = {}
  /\ def_options = <<>>
  /\ def_pc = "declare"
  /\ def_j = 1
  /\ def_raised = ""
  /\ GrowStart
  /\ PrepStart
  /\ LastStart

DefFrame ==
  UNCHANGED <<treeVars, setupVars, runVars, acVars, payVars, regVars, lastVars, growVars, prepVars,
              parameters>>

\* the def statement evaluates the defaults: SlashOption.__init__ verifies
\* each SlashOption as it is constructed
SlashOptionInit ==
  /\ def_pc = "declare"
  /\ DefFrame
  /\ UNCHANGED <<on_kwargs, def_options>>
  /\ IF def_j > Len(parameters)
     THEN def_pc' = "decorated" /\ UNCHANGED <<def_j, def_raised>>
     ELSE LET cmd_arg == parameters[def_j].cmd_arg IN
          IF /\ parameters[def_j].default = "SlashOption"
             /\ cmd_arg._verify
             /\ SlashOption_verify(cmd_arg)
          THEN def_pc' = "failed" /\ def_raised' = "ValueError" /\ UNCHANGED def_j
          ELSE def_j' = def_j + 1 /\ UNCHANGED <<def_pc, def_raised>>

\* @command.on_autocomplete(on_kwarg)
OnAutocomplete ==
  /\ def_pc = "decorated"
  /\ \E on_kwarg \in Keywords \ on_kwargs : on_kwargs' = on_kwargs \cup {on_kwarg}
  /\ DefFrame
  /\ UNCHANGED <<def_options, def_pc, def_j, def_raised>>

\* from_callback is called: the loop over the parameters starts
FromCallbackEnter ==
  /\ def_pc = "decorated"
  /\ def_pc' = "bind"
  /\ def_j' = 1
  /\ DefFrame
  /\ UNCHANGED <<on_kwargs, def_options, def_raised>>

\* one turn of the loop: arg = option_class(param, self);
\* self.options[arg.name] = arg
BuildOption ==
  /\ def_pc = "bind"
  /\ def_j <= Len(parameters)
  /\ DefFrame
  /\ UNCHANGED on_kwargs
  /\ IF BuildError(parameters[def_j]) # ""
     THEN /\ def_pc' = "failed"
          /\ def_raised' = BuildError(parameters[def_j])
          /\ UNCHANGED <<def_options, def_j>>
     ELSE /\ def_options' = Store(def_options, SlashCommandOption(parameters[def_j]))
          /\ def_j' = def_j + 1
          /\ UNCHANGED <<def_pc, def_raised>>

\* from_autocomplete on the options built: the options of each registered
\* keyword, and whether one of them took the callback
Wired(opts, arg_name) ==
  [i \in 1..Len(opts) |->
     IF opts[i].functional_name = arg_name
     THEN LET on == IF opts[i].autocomplete = MISSING THEN "True" ELSE opts[i].autocomplete IN
          [opts[i] EXCEPT !.autocomplete = on,
                          !.autocomplete_callback = IF on = "True" THEN TRUE ELSE @]
     ELSE opts[i]]
Found(opts, arg_name) ==
  \E i \in 1..Len(opts) :
    opts[i].functional_name = arg_name /\ Wired(opts, arg_name)[i].autocomplete = "True"

\* from_autocomplete over the keywords in the order given, stopping at the
\* first keyword without an option
RECURSIVE WireAll(_, _)
WireAll(opts, kws) ==
  IF kws = <<>> THEN [options |-> opts, found |-> TRUE]
  ELSE IF ~Found(opts, Head(kws)) THEN [options |-> Wired(opts, Head(kws)), found |-> FALSE]
  ELSE WireAll(Wired(opts, Head(kws)), Tail(kws))

\* the keywords of a dict in the order they were inserted: any order
Orders(S) == {q \in [1..Cardinality(S) -> S] : \A x \in S : \E i \in DOMAIN q : q[i] = x}

\* from_autocomplete ends from_callback
FromAutocomplete ==
  /\ def_pc = "bind"
  /\ def_j > Len(parameters)
  /\ DefFrame
  /\ UNCHANGED <<on_kwargs, def_j>>
  /\ \E kws \in Orders(on_kwargs) :
       LET r == WireAll(def_options, kws) IN
       /\ def_options' = r.options
       /\ IF r.found
          THEN def_pc' = "defined" /\ UNCHANGED def_raised
          ELSE def_pc' = "failed" /\ def_raised' = "ValueError"

NextOption ==
  \/ SlashOptionInit
  \/ OnAutocomplete
  \/ FromCallbackEnter
  \/ BuildOption
  \/ FromAutocomplete

SpecOption == InitOption /\ [][NextOption]_vars

(* ----------------------- option definition: properties ------------------ *)
\* the parameter an option was built from
DeclOf(o) == parameters[CHOOSE j \in 1..Len(parameters) : parameters[j].name = o.functional_name]

Verifying == \A j \in 1..Len(parameters) : parameters[j].cmd_arg._verify

\* C22: no option has both a non-empty choice set and autocomplete enabled,
\* here for the commands whose options are all verified.
C22_ChoicesExcludeAutocomplete ==
  Verifying =>
    \A i \in 1..Len(def_options) :
      ~(def_options[i].choices # MISSING /\ def_options[i].autocomplete = "True")

\* C23: a command whose option has bounds on a type other than integer or
\* number, or a channel filter on a type other than channel, is never
\* defined: its definition fails. Stated for the commands whose options are
\* all verified.
C23_BadFilterRejected ==
  (/\ Verifying
   /\ \E j \in 1..Len(parameters) :
     LET p == parameters[j]
         ty == get_type(p.annotation) IN
     /\ p.default = "SlashOption"
     /\ \/ (p.cmd_arg.min_value # MISSING \/ p.cmd_arg.max_value # MISSING)
           /\ ty \notin {"integer", "number"}
        \/ p.cmd_arg.channel_types # MISSING /\ ty # "channel")
    => def_pc # "defined"

\* C24: a command two of whose parameters resolve to the same option name is
\* never defined, and every parameter bound so far has its own option.
C24_DuplicateNameRejected ==
  /\ (\E j, k \in 1..Len(parameters) :
        /\ j # k
        /\ SlashCommandOption(parameters[j]).name = SlashCommandOption(parameters[k]).name)
       => def_pc # "defined"
  /\ def_pc \in {"bind", "defined"} => Len(def_options) = def_j - 1

(* ======================= subcommand registration ======================== *)
MaxCmds == 4

\* the coroutine functions given to the decorators, by __name__, and the
\* name argument of the decorators
Funcs == {"foo", "bar"}
NameArgs == {MISSING, "foo"}

\* the option names from_callback builds from a function: foo declares one
\* parameter after the interaction, bar none
FuncOptions(func) == IF func = "foo" THEN <<"a">> ELSE <<>>

\* SlashApplicationCommand(name, callback): parent_cmd 0 stands for a root
SlashApplicationCommand(nm, func) ==
  [class |-> "SlashApplicationCommand", name |-> nm, callback |-> func,
   parent_cmd |-> 0, type |-> "chat_input", children |-> <<>>, options |-> <<>>]

\* SlashApplicationSubcommand(name, callback, parent_cmd, cmd_type)
SlashApplicationSubcommand(nm, func, parent, cmd_type) ==
  [class |-> "SlashApplicationSubcommand", name |-> nm, callback |-> func,
   parent_cmd |-> parent, type |-> cmd_type, children |-> <<>>, options |-> <<>>]

\* self.children[ret.name] = ret on the ordered dict: the key is the name
\* the constructor was given, MISSING included
SetChild(ch, key, id) ==
  IF \E i \in 1..Len(ch) : ch[i].key = key
  THEN [i \in 1..Len(ch) |-> IF ch[i].key = key THEN [key |-> key, id |-> id] ELSE ch[i]]
  ELSE Append(ch, [key |-> key, id |-> id])

\* no path frame has been looked up
NoRoute == [self |-> 0, name |-> "", to |-> 0]

\* a decorated root command exists
InitTree ==
  /\ children = TreeChildren
  /\ options = TreeOptions
  /\ autocomplete = [n \in Nodes |-> [o \in OptionNames(n) |-> NoWiring]]
  /\ SetupIdle
  /\ RunIdle
  /\ AcStart
  /\ PayStart
  /\ RegStart
  /\ DefStart
  /\ pc = "idle"
  /\ node = "flat"
  /\ \E nm \in NameArgs, func \in Funcs : cmds = <<SlashApplicationCommand(nm, func)>>
  /\ grow_raised = ""
  /\ child_route = NoRoute
  /\ PrepStart
  /\ LastStart

GrowFrame ==
  UNCHANGED <<treeVars, setupVars, runVars, acVars, payVars, regVars, lastVars, defVars, prepVars>>

\* the objects of each class
RootIds == {id \in 1..Len(cmds) : cmds[id].class = "SlashApplicationCommand"}
SubIds == {id \in 1..Len(cmds) : cmds[id].class = "SlashApplicationSubcommand"}

\* the new child is constructed and stored in the children of self
Adopted(self, nm, func) ==
  LET id == Len(cmds) + 1
      ret == SlashApplicationSubcommand(nm, func, self, "sub_command") IN
  Append([cmds EXCEPT ![self].children = SetChild(@, ret.name, id)], ret)

\* @command.subcommand(name)(func) on a root command
RootSubcommand ==
  /\ Len(cmds) < MaxCmds
  /\ \E self \in RootIds, nm \in NameArgs, func \in Funcs :
       cmds' = Adopted(self, nm, func)
  /\ grow_raised' = ""
  /\ child_route' = NoRoute
  /\ GrowFrame

\* no parent is ever taken for a subcommand
Nested_Never(self) == FALSE

\* isinstance(self.parent_cmd, SlashApplicationSubcommand)
Nested(self) == cmds[cmds[self].parent_cmd].class = "SlashApplicationSubcommand"

\* @subcommand.subcommand(name)(func) on a subcommand: TypeError when the
\* parent of self is a subcommand, else self becomes a group
SubSubcommand ==
  /\ Len(cmds) < MaxCmds
  /\ GrowFrame
  /\ child_route' = NoRoute
  /\ \E self \in SubIds, nm \in NameArgs, func \in Funcs :
       IF Nested(self)
       THEN grow_raised' = "TypeError" /\ UNCHANGED cmds
       ELSE /\ cmds' = [Adopted(self, nm, func) EXCEPT ![self].type = "sub_command_group"]
            /\ grow_raised' = ""

\* the objects from_callback reaches from self through the children dicts
RECURSIVE Reached(_)
Reached(self) ==
  {self} \cup UNION {Reached(cmds[self].children[i].id) : i \in 1..Len(cmds[self].children)}

\* from_callback(self.callback) on any object: the name defaults to
\* callback.__name__, the options are built from the callback, and the
\* children are bound the same way
TreeFromCallback ==
  /\ \E self \in 1..Len(cmds) :
       cmds' = [id \in 1..Len(cmds) |->
                  IF id \in Reached(self)
                  THEN [cmds[id] EXCEPT
                          !.name = IF @ = MISSING THEN cmds[id].callback ELSE @,
                          !.options = FuncOptions(cmds[id].callback)]
                  ELSE cmds[id]]
  /\ grow_raised' = ""
  /\ child_route' = NoRoute
  /\ GrowFrame

\* self.children[name] on the ordered dict: the object stored under the
\* key, 0 when the lookup raises KeyError
GetChild(ch, key) ==
  IF \E i \in 1..Len(ch) : ch[i].key = key
  THEN ch[CHOOSE i \in 1..Len(ch) : ch[i].key = key].id
  ELSE 0

\* every object has been bound: from_callback resolved its name
TreeBound == \A id \in 1..Len(cmds) : cmds[id].name # MISSING

\* call on an object with children, for an event whose first path frame
\* carries the name of one of the children as it was registered with Discord
TreeCall ==
  /\ TreeBound
  /\ \E self \in 1..Len(cmds) :
       /\ cmds[self].children # <<>>
       /\ \E i \in 1..Len(cmds[self].children) :
            LET name == cmds[cmds[self].children[i].id].name IN
            child_route' = [self |-> self, name |-> name,
                       to |-> GetChild(cmds[self].children, name)]
  /\ UNCHANGED <<cmds, grow_raised>>
  /\ GrowFrame

\* the names in the options array of the payload of an object: its children
\* when it has any, else its options
PayloadOptions(self) ==
  IF cmds[self].children # <<>>
  THEN [i \in 1..Len(cmds[self].children) |-> cmds[cmds[self].children[i].id].name]
  ELSE cmds[self].options

NextTree ==
  \/ RootSubcommand
  \/ SubSubcommand
  \/ TreeFromCallback
  \/ TreeCall

SpecTree == InitTree /\ [][NextTree]_vars

(* -------------------- subcommand registration: properties --------------- *)
\* the children an object holds, as objects
ChildIds(self) == {cmds[self].children[i].id : i \in 1..Len(cmds[self].children)}

\* the name of an object once the default was resolved from the callback
ResolvedName(id) == IF cmds[id].name = MISSING THEN cmds[id].callback ELSE cmds[id].name

\* C25: no two children of the same parent have the same name, the default
\* name resolved from the callback.
C25_SiblingNamesUnique ==
  \A self \in 1..Len(cmds) :
    \A c, d \in ChildIds(self) : c # d => ResolvedName(c) # ResolvedName(d)

\* C26: the tree never exceeds one level of groups: the parent of a
\* subcommand's parent is a root command, and no group has a group as a
\* child.
C26_OneGroupLevel ==
  /\ \A id \in SubIds :
       LET p == cmds[id].parent_cmd IN
       p \in SubIds => cmds[p].parent_cmd \in RootIds
  /\ \A self \in 1..Len(cmds) :
       cmds[self].type = "sub_command_group" =>
         \A c \in ChildIds(self) : cmds[c].type # "sub_command_group"

\* a leaf under a group under a root exists and the registration of a
\* subcommand under a leaf was just rejected
C26_Witness ==
  /\ grow_raised = "TypeError"
  /\ \E leaf \in SubIds :
       /\ cmds[leaf].parent_cmd \in SubIds
       /\ cmds[cmds[leaf].parent_cmd].type = "sub_command_group"
       /\ cmds[leaf].children = <<>>
       /\ cmds[leaf].type = "sub_command"

\* C27: an object with a child holds no options, and the options array of
\* its payload lists its children only.
C27_ChildrenExcludeOptions ==
  \A self \in 1..Len(cmds) :
    cmds[self].children # <<>> =>
      /\ cmds[self].options = <<>>
      /\ PayloadOptions(self) =
           [i \in 1..Len(cmds[self].children) |-> cmds[cmds[self].children[i].id].name]

(* ============================ the cooldown gate ========================= *)
MaxInvocations == 3
MaxTime == 60

\* @cooldown(rate=1, per=60)
Rate == 1
Per == 60

\* interaction.message: None unless the payload carries a message, which
\* was created at some earlier time and never edited
Message(present, created_at) == [present |-> present, created_at |-> created_at]
NoMessage == Message(FALSE, 0)

\* dt = interaction.message.edited_at or interaction.message.created_at;
\* current = dt.replace(tzinfo=utc).timestamp(): AttributeError on None
Timestamp(message) ==
  IF ~message.present THEN [exc |-> "AttributeError", value |-> 0]
  ELSE [exc |-> "", value |-> message.created_at]

\* Cooldown.get_tokens: the bucket is full again once per units have passed
\* since the window opened
get_tokens(b, current) ==
  IF current >= b.window + Per THEN Rate ELSE b.tokens

\* Cooldown.update_rate_limit: the wait when no token is left, else a token
\* is taken, the window opening with the first token
update_rate_limit(b, current) ==
  LET tokens == get_tokens(b, current)
      window == IF tokens = Rate THEN current ELSE b.window IN
  IF tokens = 0
  THEN [retry_after |-> Per - (current - b.window), bucket |-> [b EXCEPT !.tokens = 0]]
  ELSE [retry_after |-> 0, bucket |-> [window |-> window, tokens |-> tokens - 1]]

\* a command with a cooldown and no invocation yet
InitCooldown ==
  /\ children = TreeChildren
  /\ options = TreeOptions
  /\ autocomplete = [n \in Nodes |-> [o \in OptionNames(n) |-> NoWiring]]
  /\ SetupIdle
  /\ RunIdle
  /\ AcStart
  /\ PayStart
  /\ RegStart
  /\ DefStart
  /\ GrowStart
  /\ LastStart
  /\ pc = "idle"
  /\ node = "flat"
  /\ now = 0
  /\ bucket = [window |-> 0, tokens |-> Rate]
  /\ cd_log = <<>>
  /\ gate_cfg = [valid |-> TRUE, max_concurrency |-> FALSE, cooldown_after_parsing |-> FALSE]
  /\ tasks = <<>>
  /\ slots = 0

CooldownFrame ==
  UNCHANGED <<treeVars, setupVars, runVars, acVars, payVars, regVars, lastVars, defVars, growVars,
              gate_cfg, tasks, slots>>

\* time passes
Tick ==
  /\ now < MaxTime
  /\ now' = now + Per \div 2
  /\ UNCHANGED <<bucket, cd_log>>
  /\ CooldownFrame

\* _prepare_cooldowns for an invocation made now: the bucket is asked with
\* the time of the message, and a wait raises ApplicationCommandOnCooldown
PrepareCooldowns ==
  /\ Len(cd_log) < MaxInvocations
  /\ gate_cfg.valid
  /\ \E message \in {NoMessage} \cup {Message(TRUE, at) : at \in {0, now}} :
       LET current == Timestamp(message)
           r == update_rate_limit(bucket, current.value)
           result == IF current.exc # "" THEN current.exc
                     ELSE IF r.retry_after # 0 THEN "ApplicationCommandOnCooldown"
                     ELSE "" IN
       /\ bucket' = IF current.exc # "" THEN bucket ELSE r.bucket
       /\ cd_log' = Append(cd_log, [at |-> now, message |-> message, raised |-> result,
                                    retry_after |-> IF current.exc # "" THEN 0
                                                    ELSE r.retry_after])
  /\ UNCHANGED now
  /\ CooldownFrame

NextCooldown ==
  \/ Tick
  \/ PrepareCooldowns

SpecCooldown == InitCooldown /\ [][NextCooldown]_vars

(* ----------------------- the cooldown gate: properties ------------------ *)
\* the earlier invocations that were accepted less than Per before entry i
RecentAccepted(i) ==
  {j \in 1..(i - 1) : cd_log[j].raised = "" /\ cd_log[i].at - cd_log[j].at < Per}

\* C28: an invocation made less than 60 units after an accepted one for the
\* same key is rejected with an on-cooldown error carrying retry_after > 0,
\* and an invocation with no accepted one in the 60 units before it is
\* accepted.
C28_CooldownWindow ==
  \A i \in 1..Len(cd_log) :
    IF RecentAccepted(i) # {}
    THEN cd_log[i].raised = "ApplicationCommandOnCooldown" /\ cd_log[i].retry_after > 0
    ELSE cd_log[i].raised = ""

(* =========================== the concurrency gate ======================= *)
MaxTasks == 2

\* @max_concurrency(number=1, wait=False)
Number == 1

Tasks == 1..MaxTasks

\* one invocation: where its prepare stands, the step of the try block it
\* is at, whether its acquire returned, how often it called release and
\* the exception that left prepare
Task(pos, step, acquired, releases, exc) ==
  [pc |-> pos, step |-> step, acquired |-> acquired, releases |-> releases, raised |-> exc]

\* MaxConcurrency.acquire with wait=False: the counter is tested and raised
\* in one step, and a full counter raises
acquire(value) ==
  IF value >= Number
  THEN [raised |-> "ApplicationMaxConcurrencyReached", value |-> value]
  ELSE [raised |-> "", value |-> value + 1]

\* MaxConcurrency.release: the counter goes down by one
release(value) == value - 1

\* the steps of the try block of prepare, in order
TryOrder ==
  IF gate_cfg.cooldown_after_parsing
  THEN <<"parse", "cooldown", "hooks">>
  ELSE <<"cooldown", "parse", "hooks">>

\* a try block that ends before the before-invoke hooks
TrySteps_NoHooks == {"cooldown", "parse"}

\* the steps the except clause of prepare covers
TrySteps == {"cooldown", "parse", "hooks"}

\* acquire is awaited inside the try block
AcquireInTry_Yes == TRUE

\* acquire is awaited before the try block is entered
AcquireInTry == FALSE

\* a command with any gate configuration and no invocation running
InitGate ==
  /\ children = TreeChildren
  /\ options = TreeOptions
  /\ autocomplete = [n \in Nodes |-> [o \in OptionNames(n) |-> NoWiring]]
  /\ SetupIdle
  /\ RunIdle
  /\ AcStart
  /\ PayStart
  /\ RegStart
  /\ DefStart
  /\ GrowStart
  /\ LastStart
  /\ pc = "idle"
  /\ node = "flat"
  /\ now = 0
  /\ bucket = [window |-> 0, tokens |-> Rate]
  /\ cd_log = <<>>
  /\ gate_cfg \in [valid : BOOLEAN, max_concurrency : BOOLEAN,
                   cooldown_after_parsing : BOOLEAN]
  /\ tasks = [t \in Tasks |-> Task("idle", 1, FALSE, 0, "")]
  /\ slots = 0

GateFrame ==
  UNCHANGED <<treeVars, setupVars, runVars, acVars, payVars, regVars, lastVars, defVars, growVars,
              now, bucket, cd_log, gate_cfg>>

\* prepare is called for an invocation
Prepare ==
  /\ \E t \in Tasks :
       /\ tasks[t].pc = "idle"
       /\ tasks' = [tasks EXCEPT ![t].pc = "can_run"]
  /\ UNCHANGED slots
  /\ GateFrame

\* if not await self.can_run(interaction): raise ApplicationCheckFailure
CanRun ==
  /\ \E t \in Tasks, ok \in BOOLEAN :
       /\ tasks[t].pc = "can_run"
       /\ tasks' = IF ok THEN [tasks EXCEPT ![t].pc = "acquire"]
                   ELSE [tasks EXCEPT ![t].pc = "raised",
                                      ![t].raised = "ApplicationCheckFailure"]
  /\ UNCHANGED slots
  /\ GateFrame

\* if self._max_concurrency is not None: await self._max_concurrency.acquire(...)
Acquire ==
  /\ GateFrame
  /\ \E t \in Tasks :
       /\ tasks[t].pc = "acquire"
       /\ IF ~gate_cfg.max_concurrency
          THEN tasks' = [tasks EXCEPT ![t].pc = "try"] /\ UNCHANGED slots
          ELSE LET r == acquire(slots) IN
               /\ slots' = r.value
               /\ tasks' = IF r.raised = ""
                           THEN [tasks EXCEPT ![t].pc = "try", ![t].acquired = TRUE]
                           ELSE [tasks EXCEPT ![t].pc = IF AcquireInTry THEN "except"
                                                        ELSE "raised",
                                              ![t].raised = r.raised]

\* the task after its current step returned or raised
Stepped(t, exc) ==
  LET s == TryOrder[tasks[t].step] IN
  IF exc = ""
  THEN IF tasks[t].step = Len(TryOrder) THEN [tasks EXCEPT ![t].pc = "prepared"]
       ELSE [tasks EXCEPT ![t].step = @ + 1]
  ELSE [tasks EXCEPT ![t].pc = IF s \in TrySteps THEN "except" ELSE "raised",
                     ![t].raised = exc]

\* self._prepare_cooldowns(interaction): returns at once without a valid
\* cooldown, else returns or raises
PrepareCooldownsStep ==
  /\ \E t \in Tasks, exc \in {"", "ApplicationCommandOnCooldown"} :
       /\ tasks[t].pc = "try"
       /\ TryOrder[tasks[t].step] = "cooldown"
       /\ ~gate_cfg.valid => exc = ""
       /\ tasks' = Stepped(t, exc)
  /\ UNCHANGED slots
  /\ GateFrame

\* await self._parse_arguments(interaction): returns or raises
ParseArguments ==
  /\ \E t \in Tasks, exc \in {"", "ApplicationError"} :
       /\ tasks[t].pc = "try"
       /\ TryOrder[tasks[t].step] = "parse"
       /\ tasks' = Stepped(t, exc)
  /\ UNCHANGED slots
  /\ GateFrame

\* await self.call_before_hooks(interaction): returns or raises
CallBeforeHooks ==
  /\ \E t \in Tasks, exc \in {"", "HookError"} :
       /\ tasks[t].pc = "try"
       /\ TryOrder[tasks[t].step] = "hooks"
       /\ tasks' = Stepped(t, exc)
  /\ UNCHANGED slots
  /\ GateFrame

\* except: if self._max_concurrency is not None: await release(...); raise
Except ==
  /\ GateFrame
  /\ \E t \in Tasks :
       /\ tasks[t].pc = "except"
       /\ IF gate_cfg.max_concurrency
          THEN /\ slots' = release(slots)
               /\ tasks' = [tasks EXCEPT ![t].pc = "raised", ![t].releases = @ + 1]
          ELSE /\ tasks' = [tasks EXCEPT ![t].pc = "raised"]
               /\ UNCHANGED slots

NextGate ==
  \/ Prepare
  \/ CanRun
  \/ Acquire
  \/ PrepareCooldownsStep
  \/ ParseArguments
  \/ CallBeforeHooks
  \/ Except

SpecGate == InitGate /\ [][NextGate]_vars

(* --------------------- the concurrency gate: properties ----------------- *)
\* the invocations that hold the slot: acquired and not released
SlotHolders == {t \in Tasks : tasks[t].acquired /\ tasks[t].releases = 0}

\* C29: with number=1 and wait=False at most one invocation holds the slot
\* at any time, and the counter shows capacity exactly when none holds it,
\* so that an acquire made while it is held raises and one made after the
\* release succeeds.
C29_OneHolder ==
  gate_cfg.max_concurrency =>
    /\ Cardinality(SlotHolders) <= Number
    /\ slots < Number <=> SlotHolders = {}

\* one invocation holds the slot and the acquire of another one raised
C29_Witness ==
  \E t, u \in Tasks :
    /\ t \in SlotHolders
    /\ tasks[u].raised = "ApplicationMaxConcurrencyReached"
    /\ tasks[u].pc = "raised"
    /\ ~tasks[u].acquired

\* C30: an invocation that acquired the slot and failed in a later step of
\* prepare called release exactly once before the failure left prepare; one
\* that did not acquire it never called release; the counter is the number
\* of holders and never negative.
C30_ReleaseOnFailure ==
  /\ \A t \in Tasks :
       /\ tasks[t].releases <= 1
       /\ tasks[t].releases = 1 => tasks[t].acquired
       /\ (tasks[t].pc = "raised" /\ tasks[t].acquired) => tasks[t].releases = 1
  /\ slots >= 0
  /\ slots = Cardinality(SlotHolders)

\* the before-invoke hooks of an invocation holding the slot failed, and
\* the slot was released once before the failure left prepare
C30_Witness ==
  \E t \in Tasks :
    /\ tasks[t].pc = "raised"
    /\ tasks[t].raised = "HookError"
    /\ tasks[t].acquired
    /\ tasks[t].releases = 1
    /\ slots = 0

(* ------------------------ the response of an event ---------------------- *)
\* response operations called on the response of one event
MaxResponses == 3

\* InterType, the types of an inbound event (types/inters.py)
InterTypes == {"ping", "application_command", "component"}

\* InterResponse.is_done
is_done == responded

AlreadyResponded_Never == FALSE

\* if self._responded: raise InterResponded(self._parent)
AlreadyResponded == is_done

\* the operation returned or raised
Answered(op, outcome) ==
  resp_log' = Append(resp_log, [op |-> op, outcome |-> outcome, done |-> is_done])

\* await adapter.create_Inter_response(...): the request is transmitted and
\* either succeeds, and the statement after it sets _responded, or raises
\* HTTPException, and the operation ends there
create_Inter_response(op, type, ok) ==
  /\ sent' = Append(sent, [op |-> op, type |-> type, ok |-> ok])
  /\ responded' = IF ok THEN TRUE ELSE responded
  /\ Answered(op, IF ok THEN "sent" ELSE "HTTPException")

\* the operation ended without a request
Untransmitted(op, outcome) ==
  /\ UNCHANGED <<responded, sent>>
  /\ Answered(op, outcome)

\* the response of one inbound event of any type, nothing sent yet
InitRespond ==
  /\ children = TreeChildren
  /\ options = TreeOptions
  /\ autocomplete = [n \in Nodes |-> [o \in OptionNames(n) |-> NoWiring]]
  /\ SetupIdle
  /\ RunIdle
  /\ AcStart
  /\ PayStart
  /\ RegStart
  /\ DefStart
  /\ GrowStart
  /\ PrepStart
  /\ UserStart
  /\ CheckStart
  /\ pc = "idle"
  /\ node = "flat"
  /\ inter_type \in InterTypes
  /\ resp_log = <<>>

RespondFrame ==
  /\ Len(resp_log) < MaxResponses
  /\ UNCHANGED <<treeVars, setupVars, runVars, payVars, regVars, defVars, growVars, prepVars,
                 autocomplete, focused_option, focused_option_value, uncalled_options,
                 ac_value, ac_invoked, inter_type, userVars, checkVars>>

\* the deferred response type of the event's type, 0 for none
DeferType ==
  IF inter_type = "component" THEN "deferred_message_update"
  ELSE IF inter_type = "application_command" THEN "deferred_channel_message"
  ELSE "0"

\* InterResponse.defer
Defer ==
  /\ RespondFrame
  /\ \E ok \in BOOLEAN :
       IF AlreadyResponded THEN Untransmitted("defer", "InterResponded")
       ELSE IF DeferType # "0" THEN create_Inter_response("defer", DeferType, ok)
       ELSE Untransmitted("defer", "returned")

\* InterResponse.pong
Pong ==
  /\ RespondFrame
  /\ \E ok \in BOOLEAN :
       IF AlreadyResponded THEN Untransmitted("pong", "InterResponded")
       ELSE IF inter_type = "ping" THEN create_Inter_response("pong", "pong", ok)
       ELSE Untransmitted("pong", "returned")

\* InterResponse.send_message; mixed: embed and embeds are both given
SendMessage ==
  /\ RespondFrame
  /\ \E ok \in BOOLEAN, mixed \in BOOLEAN :
       IF AlreadyResponded THEN Untransmitted("send_message", "InterResponded")
       ELSE IF mixed THEN Untransmitted("send_message", "TypeError")
       ELSE create_Inter_response("send_message", "channel_message", ok)

\* InterResponse.edit_message; mixed: embed and embeds are both given
EditMessage ==
  /\ RespondFrame
  /\ \E ok \in BOOLEAN, mixed \in BOOLEAN :
       IF AlreadyResponded THEN Untransmitted("edit_message", "InterResponded")
       ELSE IF inter_type # "component" THEN Untransmitted("edit_message", "returned")
       ELSE IF mixed THEN Untransmitted("edit_message", "TypeError")
       ELSE create_Inter_response("edit_message", "message_update", ok)

NextRespond ==
  \/ Defer
  \/ Pong
  \/ SendMessage
  \/ EditMessage

SpecRespond == InitRespond /\ [][NextRespond]_vars

(* -------------------- the response of an event: properties -------------- *)
\* the requests that succeeded
Transmitted == {i \in 1..Len(sent) : sent[i].ok}

\* C31: at most one response of an event is transmitted successfully; from
\* the moment one operation has transmitted, is_done() is true, and every
\* operation called later raises InterResponded and sends no request.
C31_OneResponse ==
  /\ Cardinality(Transmitted) <= 1
  /\ is_done <=> Transmitted # {}
  /\ \A i \in Transmitted : i = Len(sent)
  /\ \A i, j \in 1..Len(resp_log) :
       (i < j /\ resp_log[i].outcome = "sent") =>
         /\ resp_log[j].done
         /\ resp_log[j].outcome = "InterResponded"

\* a response was transmitted and an operation called after it raised
C31_Witness ==
  /\ Cardinality(Transmitted) = 1
  /\ Len(resp_log) >= 2
  /\ resp_log[Len(resp_log)].outcome = "InterResponded"
  /\ resp_log[Len(resp_log) - 1].outcome = "sent"

(* ------------------------- resolving a user option ---------------------- *)
\* user options resolved for one event
MaxResolves == 2

\* the ids of the users an event can name
Ids == {111, 222}

\* the key of an id in the resolved blobs, and the text of a frame value
Key(i) == IF i = 111 THEN "111" ELSE "222"

\* int(value), int(member_id)
SnowflakeInt(k) == IF k = "111" THEN 111 ELSE 222

\* an entry of data["resolved"]["users"] and one of data["resolved"]["members"],
\* which arrives without a "user" field
UserPayload(i) == [id |-> Key(i), username |-> "name"]
MemberPayload == [nick |-> "nick"]

\* the blobs Discord sends with an event that names users: every named user
\* under "users", those that are members of the guild under "members"
ResolvedBlobs ==
  {[x \in {"users"} |-> [k \in {Key(i) : i \in us} |-> UserPayload(SnowflakeInt(k))]] :
     us \in (SUBSET Ids) \ {{}}}
  \cup
  {[x \in {"members", "users"} |->
      IF x = "users" THEN [k \in {Key(i) : i \in us} |-> UserPayload(SnowflakeInt(k))]
      ELSE [k \in {Key(i) : i \in ms} |-> MemberPayload]] :
     us \in (SUBSET Ids) \ {{}}, ms \in (SUBSET Ids) \ {{}}}

\* the entities handed to the callback
Member(i) == [class |-> "Member", id |-> i]
User(i) == [class |-> "User", id |-> i]
KeyError(i) == [class |-> "KeyError", id |-> i]

\* the member ids of the blob that guild.get_member does not find
Uncached ==
  {k \in DOMAIN data_resolved["members"] : SnowflakeInt(k) \notin guild_members}

\* get_users_from_interaction, what it returns: the members of the members
\* blob when the blob is there, else the users of the users blob
get_users_from_interaction ==
  IF "members" \in DOMAIN data_resolved
  THEN {Member(SnowflakeInt(k)) : k \in DOMAIN data_resolved["members"]}
  ELSE IF "users" \in DOMAIN data_resolved
  THEN {User(SnowflakeInt(data_resolved["users"][k].id)) : k \in DOMAIN data_resolved["users"]}
  ELSE {}

Written_Copy == data_resolved

\* get_users_from_interaction, what it leaves in interaction.data: the loop
\* runs over a shallow copy of the members blob, so member_payload is the
\* entry of the blob itself and member_payload["user"] = user_payload writes
\* into it
Written ==
  IF "members" \in DOMAIN data_resolved
  THEN [data_resolved EXCEPT !["members"] =
          [k \in DOMAIN @ |->
             IF k \in Uncached THEN SetItem(@[k], "user", data_resolved["users"][k])
             ELSE @[k]]]
  ELSE data_resolved

\* get_users_from_interaction, what it leaves in the cache of the guild
Added ==
  IF "members" \in DOMAIN data_resolved
  THEN guild_members \cup {SnowflakeInt(k) : k \in DOMAIN data_resolved["members"]}
  ELSE guild_members

\* user_dict[user_id] over the returned entities
user_dict(user_id) ==
  LET found == {u \in get_users_from_interaction : u.id = user_id}
  IN IF found = {} THEN KeyError(user_id) ELSE CHOOSE u \in found : TRUE

\* an event naming users arrived in a guild with some members cached
InitUsers ==
  /\ children = TreeChildren
  /\ options = TreeOptions
  /\ autocomplete = [n \in Nodes |-> [o \in OptionNames(n) |-> NoWiring]]
  /\ SetupIdle
  /\ RunIdle
  /\ AcStart
  /\ PayStart
  /\ RegStart
  /\ DefStart
  /\ GrowStart
  /\ PrepStart
  /\ RespStart
  /\ CheckStart
  /\ pc = "idle"
  /\ node = "flat"
  /\ data_resolved \in {r \in ResolvedBlobs :
                          "members" \in DOMAIN r => DOMAIN r["members"] \subseteq DOMAIN r["users"]}
  /\ guild_members \in SUBSET Ids
  /\ users_log = <<>>

\* SlashCommandOption.handle_value for an option of type user whose frame
\* value names a user of the users blob
HandleValueUser ==
  /\ Len(users_log) < MaxResolves
  /\ \E value \in DOMAIN data_resolved["users"] :
       /\ data_resolved' = Written
       /\ guild_members' = Added
       /\ users_log' = Append(users_log,
                              [value |-> value,
                               before |-> data_resolved,
                               after |-> Written,
                               result |-> user_dict(SnowflakeInt(value))])
  /\ UNCHANGED <<treeVars, setupVars, runVars, acVars, payVars, regVars, defVars, growVars,
                 prepVars, respVars, checkVars>>

NextUsers == HandleValueUser

SpecUsers == InitUsers /\ [][NextUsers]_vars

(* --------------------- resolving a user option: properties -------------- *)
\* C32: a user option whose value is an id of the users blob resolves to the
\* entity with that id, a member when the id is listed in the members blob
\* and a user otherwise, and that entity is what the callback receives.
C32_UserResolved ==
  \A c \in 1..Len(users_log) :
    LET call == users_log[c]
        id == SnowflakeInt(call.value)
    IN call.result =
         IF "members" \in DOMAIN call.before /\ call.value \in DOMAIN call.before["members"]
         THEN Member(id)
         ELSE User(id)

\* C37: get_users_from_interaction leaves every entry of
\* data.resolved.members and data.resolved.users as it was before the call.
C37_RawDataUnchanged ==
  \A c \in 1..Len(users_log) : users_log[c].after = users_log[c].before

(* --------------------------- the check decorator ------------------------ *)
\* check decorators stacked on one callback, binds of the command, and
\* invocations whose checks are logged
MaxChecks == 2
MaxBinds == 2
MaxRuns == 2

\* the predicates handed to check, and the classes the command decorators
\* construct
Predicates == {"p", "q"}
Kinds == {"SlashApplicationCommand", "SlashApplicationSubcommand",
          "UserApplicationCommand", "MessageApplicationCommand"}

\* AppCmdCallbackWrapper.__new__ for CheckWrapper(func, predicate): a command
\* object takes the modify callback of the new wrapper and is returned;
\* anything else is wrapped, the new wrapper's modify callback first
CheckWrapper(func, predicate) ==
  IF func.class \in Kinds
  THEN [func EXCEPT !.modify_callbacks = @ \o <<predicate>>]
  ELSE [class |-> "CheckWrapper",
        modify_callbacks |-> <<predicate>> \o func.modify_callbacks,
        checks |-> <<>>,
        binds |-> 0]

\* the constructor of a command class, AppCmdWrapperMixin.__init__ and
\* CallbackMixin.__init__: the modify callbacks of a wrapper are taken over
Constructed(kind, func) ==
  [class |-> kind, modify_callbacks |-> func.modify_callbacks, checks |-> <<>>, binds |-> 0]

\* the classes whose from_callback ends with
\* 'for modify_callback in self.modify_callbacks: modify_callback(self)'
RunsModifyCallbacks(class) ==
  class \in {"SlashApplicationCommand", "SlashApplicationSubcommand"}

\* from_callback of the class of the command
from_callback(cmd) ==
  [cmd EXCEPT !.checks = IF RunsModifyCallbacks(cmd.class)
                         THEN Modified(@, cmd.modify_callbacks)
                         ELSE @,
              !.binds = @ + 1]

\* the command checks of can_run: the predicates are awaited in order up to
\* the first one that fails
RECURSIVE Evaluated(_, _, _)
Evaluated(predicates, failing, j) ==
  IF j > Len(predicates) THEN <<>>
  ELSE IF predicates[j] \in failing THEN <<predicates[j]>>
  ELSE <<predicates[j]>> \o Evaluated(predicates, failing, j + 1)

\* check(predicate): the decorator returned is the inner function wrapper,
\* on which no attribute is set
check(predicate) == [class |-> "function", of |-> predicate, attributes |-> {}]

\* check_any, the loop over the checks: wrapped.predicate of every check, or
\* TypeError
Unwrapped(cs) ==
  IF \E i \in 1..Len(cs) : "predicate" \notin cs[i].attributes
  THEN "TypeError"
  ELSE "unwrapped"

\* check_any, the predicate it builds: the first check that returns a true
\* value passes it; a check that raises ApplicationCheckFailure or returns
\* a false value lets the next one run
RECURSIVE AnyPredicate(_, _, _)
AnyPredicate(cs, outcome, j) ==
  IF j > Len(cs) THEN "ApplicationCheckAnyFailure"
  ELSE IF outcome[cs[j].of] = "True" THEN "pass"
  ELSE AnyPredicate(cs, outcome, j + 1)

\* check_any(*checks) built and, when it was built, evaluated for an
\* interaction for which the predicates give outcome
check_any(cs, outcome) ==
  IF Unwrapped(cs) = "TypeError" THEN "TypeError" ELSE AnyPredicate(cs, outcome, 1)

\* what a predicate does for an interaction
PredicateOutcomes == {"True", "False", "ApplicationCheckFailure"}

\* a plain coroutine function, nothing decorated yet
InitCheck ==
  /\ children = TreeChildren
  /\ options = TreeOptions
  /\ autocomplete = [n \in Nodes |-> [o \in OptionNames(n) |-> NoWiring]]
  /\ SetupIdle
  /\ RunIdle
  /\ AcStart
  /\ PayStart
  /\ RegStart
  /\ DefStart
  /\ GrowStart
  /\ PrepStart
  /\ RespStart
  /\ UserStart
  /\ CheckStart
  /\ pc = "idle"
  /\ node = "flat"

CheckFrame ==
  UNCHANGED <<treeVars, setupVars, runVars, acVars, payVars, regVars, defVars, growVars,
              prepVars, respVars, userVars>>

\* @application_checks.check(predicate) is applied, before the command is bound
Check ==
  /\ CheckFrame
  /\ Len(deco.modify_callbacks) < MaxChecks
  /\ deco.binds = 0
  /\ \E predicate \in Predicates \ Range(deco.modify_callbacks) :
       deco' = CheckWrapper(deco, predicate)
  /\ UNCHANGED <<run_log, any_log>>

\* a command decorator is applied: slash_command, subcommand, user_command
\* or message_command constructs the command object
Command ==
  /\ CheckFrame
  /\ deco.class \notin Kinds
  /\ \E kind \in Kinds : deco' = Constructed(kind, deco)
  /\ UNCHANGED <<run_log, any_log>>

\* the command is bound: from_callback(self.callback)
BindCommand ==
  /\ CheckFrame
  /\ deco.class \in Kinds
  /\ deco.binds < MaxBinds
  /\ deco' = from_callback(deco)
  /\ UNCHANGED <<run_log, any_log>>

\* the bound command is invoked and can_run awaits its checks
Invoke ==
  /\ CheckFrame
  /\ deco.class \in Kinds
  /\ deco.binds > 0
  /\ Len(run_log) < MaxRuns
  /\ \E failing \in SUBSET Predicates :
       run_log' = Append(run_log, [evaluated |-> Evaluated(deco.checks, failing, 1),
                                   failing |-> failing])
  /\ UNCHANGED <<deco, any_log>>

\* check_any is called with checks made by check, and what it returned is
\* awaited for an interaction
CheckAny ==
  /\ CheckFrame
  /\ \E cs \in SeqsUpTo({check(p) : p \in Predicates}, MaxChecks),
        outcome \in [Predicates -> PredicateOutcomes] :
       any_log' = <<[checks |-> cs, outcome |-> outcome, result |-> check_any(cs, outcome)]>>
  /\ UNCHANGED <<deco, run_log>>

NextCheck ==
  \/ Check
  \/ Command
  \/ BindCommand
  \/ Invoke
  \/ CheckAny

SpecCheck == InitCheck /\ [][NextCheck]_vars

(* ----------------------- the check decorator: properties ---------------- *)
\* C33: on a bound command of any kind, every predicate attached with the
\* check decorator is in the checks list, and every invocation evaluates it
\* unless a check before it has already failed.
C33_CheckAttached ==
  (deco.class \in Kinds /\ deco.binds > 0) =>
    \A p \in Range(deco.modify_callbacks) :
      /\ p \in Range(deco.checks)
      /\ \A r \in 1..Len(run_log) :
           \/ p \in Range(run_log[r].evaluated)
           \/ \E q \in Range(run_log[r].evaluated) : q \in run_log[r].failing

\* C34: check_any over checks made by the check decorator passes when one of
\* them returns a true value, and fails with ApplicationCheckAnyFailure
\* exactly when none does.
C34_AnyIsOr ==
  \A a \in 1..Len(any_log) :
    LET passing == \E i \in 1..Len(any_log[a].checks) :
                     any_log[a].outcome[any_log[a].checks[i].of] = "True"
    IN /\ passing => any_log[a].result = "pass"
       /\ ~passing <=> any_log[a].result = "ApplicationCheckAnyFailure"

(* ------------------- exceptions of predicates: properties --------------- *)
\* the checks of the log that raised an exception of class ty
RaisedBy(ty) ==
  {i \in 1..Len(log) : log[i].k = "check" /\ log[i].err.type = ty
                       /\ log[i].err.src = "predicate"}

\* the application_command_error events dispatched with exception e
DispatchedWith(e) ==
  {j \in 1..Len(log) : log[j].k = "dispatch" /\ log[j].err = e}

\* C35: an exception of a check predicate that is no ApplicationError leaves
\* the dispatch and is not sent to application_command_error; an
\* ApplicationCheckFailure raised by a predicate is sent to that event.
C35_ForeignErrorPropagates ==
  pc = "done" =>
    /\ \A i \in RaisedBy("Exception") :
         /\ raised = log[i].err
         /\ DispatchedWith(log[i].err) = {}
    /\ \A i \in RaisedBy("ApplicationCheckFailure") :
         DispatchedWith(log[i].err) # {}

(* ------------------------ routing to a child: properties ---------------- *)
\* C36: once bound, a subcommand registered without a name carries the name
\* of its callback, every child is found in the children dict of its parent
\* under its own name, and an event whose path frame carries that name is
\* routed to a child of that name.
C36_ChildReachable ==
  TreeBound =>
    /\ \A self \in 1..Len(cmds) :
         \A i \in 1..Len(cmds[self].children) :
           cmds[self].children[i].key = MISSING =>
             cmds[cmds[self].children[i].id].name = cmds[cmds[self].children[i].id].callback
    /\ \A self \in 1..Len(cmds) :
         \A c \in ChildIds(self) :
           LET to == GetChild(cmds[self].children, cmds[c].name) IN
           to # 0 /\ cmds[to].name = cmds[c].name
    /\ child_route.self # 0 => (child_route.to # 0 /\ cmds[child_route.to].name = child_route.name)

(* --------------------------- rollout signatures ------------------------- *)
\* ApplicationCommandType.chat_input.value
ChatInput == 1

\* BaseApplicationCommand.guild_ids: the keys of command_ids but None
guild_ids(n) == DOMAIN command_ids[n] \ {0}

\* BaseApplicationCommand.is_guild
is_guild(n) == guild_ids_to_rollout[n] # {} \/ guild_ids(n) # {}

is_global_Unforced(n) == ~is_guild(n)

\* BaseApplicationCommand.is_global
is_global(n) == force_global[n] \/ ~is_guild(n)

\* BaseApplicationCommand.get_signature; the global scope None is 0
get_signature(n, guild_id) == <<n, ChatInput, guild_id>>

\* BaseApplicationCommand.get_rollout_signatures
get_rollout_signatures(n) ==
  (IF is_global(n) THEN {get_signature(n, 0)} ELSE {})
  \cup {get_signature(n, guild_id) : guild_id \in guild_ids_to_rollout[n]}

\* BaseApplicationCommand.get_signatures
get_signatures(n) ==
  (IF is_global(n) THEN {get_signature(n, 0)} ELSE {})
  \cup (IF is_guild(n) THEN {get_signature(n, guild_id) : guild_id \in guild_ids(n)} ELSE {})

\* commands as BaseApplicationCommand.__init__ leaves them: force_global and
\* guild_ids as the decorator was given them, nothing registered
InitRollout ==
  /\ children = TreeChildren
  /\ options = TreeOptions
  /\ autocomplete = [n \in Nodes |-> [o \in OptionNames(n) |-> NoWiring]]
  /\ SetupIdle
  /\ RunIdle
  /\ AcStart
  /\ PayStart
  /\ LaterStart
  /\ pc = "setup"
  /\ node = "cmd"
  /\ callback = [n \in Nodes |-> "f0"]
  /\ modify_callbacks = [n \in Nodes |-> <<>>]
  /\ temp_autocomplete_callbacks = [n \in Nodes |-> EmptyDict]
  /\ command_ids = [n \in Roots |-> EmptyDict]
  /\ force_global \in [Roots -> BOOLEAN]
  /\ guild_ids_to_rollout \in [Roots -> SUBSET GuildIds]
  /\ last_payload = [name |-> ""]
  /\ ops = <<>>

NextRollout ==
  \/ AddGuildRollout
  \/ ParseDiscordResponse

SpecRollout == InitRollout /\ [][NextRollout]_vars

(* ---------------------- rollout signatures: properties ------------------ *)
\* C38: a command carries the global signature among its rollout signatures
\* exactly when force_global is set or it has neither a rollout guild nor a
\* registered guild id, and it carries one guild signature per rollout
\* guild and no other; so a command that is not forced and has a rollout
\* guild carries no global signature.
C38_GlobalSignature ==
  \A n \in Roots :
    /\ get_signature(n, 0) \in get_rollout_signatures(n)
         <=> (force_global[n] \/ (guild_ids_to_rollout[n] = {} /\ guild_ids(n) = {}))
    /\ get_rollout_signatures(n) \ {get_signature(n, 0)}
         = {get_signature(n, g) : g \in guild_ids_to_rollout[n]}
    /\ (~force_global[n] /\ guild_ids_to_rollout[n] # {})
         => get_signature(n, 0) \notin get_rollout_signatures(n)

\* the first rollout guild was just added to a command that is not forced
\* and had no guild, and its rollout signatures are the one of that guild
C38_Witness ==
  /\ ops # <<>>
  /\ LET op == ops[Len(ops)] IN
     /\ op.name = "add_guild_rollout"
     /\ ~force_global[op.node]
     /\ guild_ids_to_rollout[op.node] = {op.arg}
     /\ guild_ids(op.node) = {}
     /\ get_rollout_signatures(op.node) = {get_signature(op.node, op.arg)}

\* C39: every guild scope with a remote id in command_ids is a rollout
\* guild: the guild signatures of a command are among its rollout
\* signatures.
C39_RegisteredIsRollout ==
  \A n \in Roots :
    /\ guild_ids(n) \subseteq guild_ids_to_rollout[n]
    /\ \A g \in guild_ids(n) : get_signature(n, g) \in get_signatures(n)
                                  /\ get_signature(n, g) \in get_rollout_signatures(n)

\* a response for a guild the command was not rolled out to was parsed
C39_Witness ==
  /\ Len(ops) = 2
  /\ ops[1].name = "add_guild_rollout"
  /\ ops[2].name = "parse_discord_response"
  /\ ops[2].node = ops[1].node
  /\ ops[2].arg.scope # 0
  /\ ops[2].arg.scope # ops[1].arg
  /\ ops[2].arg.scope \in guild_ids(ops[2].node)
  /\ {ops[1].arg, ops[2].arg.scope} \subseteq guild_ids_to_rollout[ops[2].node]

(* ------------------- resolution before checks: properties --------------- *)
\* the entries of the log left by the resolution of a value frame, and those
\* left by the checks, the hooks, the callback and the error reporting
ResolveEntries == {i \in 1..Len(log) : log[i].k = "resolve"}
PipelineEntries ==
  {j \in 1..Len(log) :
     log[j].k \in {"check", "before", "callback", "after", "dispatch", "handler"}}

\* C40: in slash-command dispatch every value frame is resolved before the
\* first check is evaluated, and when the resolution of a frame fails no
\* check, no hook and no callback runs.
C40_ResolveBeforeChecks ==
  /\ \A i \in ResolveEntries, j \in PipelineEntries : i < j
  /\ PipelineEntries # {} =>
       /\ Cardinality(ResolveEntries) = Len(option_data)
       /\ \A h \in 1..Len(option_data) :
            IF option_data[h].kind = "value" /\ option_data[h].name \in OptionNames(node)
            THEN handle_value(OptionNamed(node, option_data[h].name), option_data[h].value).ok
            ELSE FALSE
  /\ (pc = "done" /\ raised.src = "handle_value") => PipelineEntries = {}

\* the second frame of an event could not be resolved, after the first one
\* was, on a command with a check: the dispatch ended with nothing run
C40_Witness ==
  /\ pc = "done"
  /\ raised = Err("ValueError", "handle_value")
  /\ Cardinality(ResolveEntries) = 2
  /\ PipelineEntries = {}
  /\ checks[node] # <<>>
  /\ global_checks # <<>>

=============================================================================
